---- MODULE Spec2Model ----
(***************************************************************************)
(* A model of the event-attendance server (server/app.js, final version):  *)
(* the calendar fetcher and its cache, the reconciliation that runs inside *)
(* GET /api/events, the RSVP add/remove path of POST /api/rsvp, the admin  *)
(* limit update of PUT /api/events/:id and the broadcast log.              *)
(*                                                                         *)
(* Every `await` of a handler is a point where another request may run, so *)
(* each handler is cut into one action per awaited database statement or   *)
(* upstream fetch; the synchronous code between two awaits belongs to the  *)
(* action of the statement that precedes it.                               *)
(*                                                                         *)
(* The database is PostgreSQL at its default isolation (READ COMMITTED):   *)
(* statements outside BEGIN..COMMIT commit on their own, a transaction's   *)
(* writes are private to its connection until COMMIT, a statement that     *)
(* touches a row written by another open transaction waits for it, and a   *)
(* failed statement aborts the transaction of its connection.              *)
(***************************************************************************)
EXTENDS Integers, Sequences, FiniteSets, Bags, TLC

VARIABLES
    appConfig,      \* config/app.json: the calendars and events.autoFetch
    now,            \* Date.now(), in milliseconds
    upstream,       \* what each Google calendar answered to the latest fetch
    calendarCache,  \* [events, lastFetch]
    events,         \* committed rows of table events, by id (NoRow = absent)
    rsvps,          \* committed rows of table rsvps: a bag of <<event_id, name>>
    pool,           \* idle pooled connections that still carry transaction state (a bag)
    reqs,           \* the requests in flight and the finished ones
    sent,           \* the messages handed to broadcast(), oldest first
    wss             \* the WebSocket clients, and who was open at each broadcast

vars == <<appConfig, now, upstream, calendarCache, events, rsvps, pool, reqs, sent, wss>>

(***************************************************************************)
(* Values                                                                  *)
(***************************************************************************)
NULL == [k |-> "null"]
UNDEFINED == [k |-> "undefined"]
Num(n) == [k |-> "int", v |-> n]
NoRow == [k |-> "norow"]

\* Bounds of the model.
MaxReqs == 3
MaxSyncReqs == 2

\* Program constants.
CACHE_TTL == 300000
MaxNameLength == 100

Reqs == 1..MaxReqs
Sources == {"A", "B"}
EventIds == {"cal-a", "cal-b"}
CalId(uid) == IF uid = "a" THEN "cal-a" ELSE "cal-b"
StartTime == CACHE_TTL + 1

(***************************************************************************)
(* validateAttendeeName: a name is a sequence of one-character strings.    *)
(***************************************************************************)
UpperCase == <<"A","B","C","D","E","F","G","H","I","J","K","L","M",
               "N","O","P","Q","R","S","T","U","V","W","X","Y","Z">>
LowerCase == <<"a","b","c","d","e","f","g","h","i","j","k","l","m",
               "n","o","p","q","r","s","t","u","v","w","x","y","z">>
WhiteSpace == {" ", "\t", "\n", "\r"}

LowerChar(c) ==
    IF \E i \in 1..26 : UpperCase[i] = c
    THEN LowerCase[CHOOSE i \in 1..26 : UpperCase[i] = c]
    ELSE c

ToLower(s) == [i \in 1..Len(s) |-> LowerChar(s[i])]

RECURSIVE TrimStart(_)
TrimStart(s) ==
    IF s # <<>> /\ Head(s) \in WhiteSpace THEN TrimStart(Tail(s)) ELSE s

RECURSIVE TrimEnd(_)
TrimEnd(s) ==
    IF s # <<>> /\ s[Len(s)] \in WhiteSpace
    THEN TrimEnd(SubSeq(s, 1, Len(s) - 1))
    ELSE s

Trim(s) == TrimEnd(TrimStart(s))

Includes(s, p) ==
    \E i \in 1..(Len(s) - Len(p) + 1) : SubSeq(s, i, i + Len(p) - 1) = p

\* /<script|javascript:|onerror=|onclick=|onload=/i
XssPatterns ==
    { <<"<","s","c","r","i","p","t">>,
      <<"j","a","v","a","s","c","r","i","p","t",":">>,
      <<"o","n","e","r","r","o","r","=">>,
      <<"o","n","c","l","i","c","k","=">>,
      <<"o","n","l","o","a","d","=">> }

\* An opaque text value (a calendar id), as opposed to NULL.
Text(t) == [k |-> "text", t |-> t]

\* A JavaScript string value: its characters.
Str(chars) == [k |-> "str", s |-> chars]
IsString(x) == x.k = "str"

\* A check that would test the patterns without the i flag.
validateAttendeeName_CaseSensitive(name) ==
    IF ~IsString(name) THEN NULL
    ELSE LET trimmed == Trim(name.s) IN
         IF Len(trimmed) = 0 \/ Len(trimmed) > MaxNameLength THEN NULL
         ELSE IF \E p \in XssPatterns : Includes(trimmed, p) THEN NULL
         ELSE Str(trimmed)

\* The trimmed name, or NULL when the name is rejected.
validateAttendeeName(name) ==
    IF ~IsString(name) THEN NULL
    ELSE LET trimmed == Trim(name.s) IN
         IF Len(trimmed) = 0 \/ Len(trimmed) > MaxNameLength THEN NULL
         ELSE IF \E p \in XssPatterns : Includes(ToLower(trimmed), p) THEN NULL
         ELSE Str(trimmed)

(***************************************************************************)
(* The database: connections, transactions and row locks.                  *)
(***************************************************************************)
\* The blocks of the feeds all carry one DTSTART, FeedDate: a row gets another
\* date only where the date matters, in the list query.
FeedDate == StartTime
EventRow(title, source, limit) ==
    [title |-> title, source |-> source, attendance_limit |-> limit,
     date |-> FeedDate]

NoEvents == [id \in EventIds |-> NoRow]
NoUpserts == [id \in EventIds |-> NoRow]
CleanConn == [tx |-> "none", upserts |-> NoUpserts, deletes |-> {}]
AbortedConn == [tx |-> "aborted", upserts |-> NoUpserts, deletes |-> {}]

\* A connection carries state worth keeping in the pool unless it is clean.
IsDirty(c) == c # CleanConn

\* The connections that exist: the ones held by requests and the idle dirty ones.
HeldBy(r) == reqs[r].conn
OpenConnsExcept(r) ==
    {reqs[q].conn : q \in {q \in Reqs : q # r /\ reqs[q].pc \notin {"idle", "done"}}}
        \cup BagToSet(pool)

\* Row id of events is written by an open transaction of another connection.
WriteLocked(r, id) ==
    \E c \in OpenConnsExcept(r) :
        c.tx = "open" /\ (c.upserts[id] # NoRow \/ id \in c.deletes)

\* Row id of events is deleted by an open transaction of another connection.
DeleteLocked(r, id) ==
    \E c \in OpenConnsExcept(r) : c.tx = "open" /\ id \in c.deletes

\* What a statement on connection c sees of table events.
ViewEvents(c) ==
    [id \in EventIds |->
        IF c.upserts[id] # NoRow THEN c.upserts[id]
        ELSE IF id \in c.deletes THEN NoRow
        ELSE events[id]]

\* The 'yes' RSVP rows of an event, as a bag of names, and their number.
RsvpKeys == BagToSet(rsvps)
AttendeesOf(id) ==
    LET names == {k[2] : k \in {k \in RsvpKeys : k[1] = id}} IN
    [n \in names |-> rsvps[<<id, n>>]]
AttendingCount(id) == BagCardinality(AttendeesOf(id))

\* pool.connect(): an idle connection of the pool or a new one.
Acquirable == BagToSet(pool) \cup {CleanConn}
PoolAfterAcquire(c) == IF c = CleanConn THEN pool ELSE pool (-) SetToBag({c})
\* client.release(): the connection goes back as it is, no ROLLBACK is sent.
PoolAfterRelease(p, c) == IF IsDirty(c) THEN p (+) SetToBag({c}) ELSE p

(***************************************************************************)
(* Requests                                                                *)
(***************************************************************************)
NoReply == [status |-> 0, success |-> FALSE, message |-> "none"]
Reply(status, success, message) ==
    [status |-> status, success |-> success, message |-> message]

IdleReq ==
    [kind |-> "none", pc |-> "idle", conn |-> CleanConn, in |-> NULL,
     res |-> NoReply, event |-> NoRow, name |-> NULL,
     attendingCount |-> UNDEFINED, inserted |-> 0, removed |-> 0,
     calendarEvents |-> <<>>, existing |-> NoUpserts, idx |-> 0,
     stale |-> {}, fetchNow |-> 0, after |-> NULL, preCount |-> UNDEFINED,
     list |-> <<>>]

\* Request slots are taken in order: the slots are interchangeable.
CanStart(r) ==
    /\ reqs[r].pc = "idle"
    /\ IF r = 1 THEN TRUE ELSE reqs[r - 1].pc # "idle"

\* The handler returns: res.json(...), then the finally block's client.release()
\* puts connection c back into pool p. A finished request keeps, for the record,
\* its input and reply, the row and the count it read, the number of rows it wrote,
\* the list it reconciled, how far it got and the rows its COMMIT left.
Done(rq, reply) ==
    [IdleReq EXCEPT !.kind = rq.kind, !.pc = "done", !.in = rq.in, !.res = reply,
                    !.event = rq.event, !.attendingCount = rq.attendingCount,
                    !.inserted = rq.inserted, !.removed = rq.removed,
                    !.calendarEvents = rq.calendarEvents, !.idx = rq.idx,
                    !.stale = rq.stale, !.after = rq.after,
                    !.preCount = rq.preCount, !.list = rq.list]

Finish(r, rq, c, reply, p) ==
    /\ reqs' = [reqs EXCEPT ![r] = Done(rq, reply)]
    /\ pool' = PoolAfterRelease(p, c)

(***************************************************************************)
(* The WebSocket server and the browser clients                            *)
(***************************************************************************)
Clients == {"c1", "c2"}

\* A browser without a socket and with no event loaded. epoch counts the
\* sockets the page has opened, fetched holds a response of GET /api/events
\* whose .then has not run yet, received is the history of onmessage calls.
ClosedClient ==
    [readyState |-> "CLOSED", epoch |-> 0, inbox |-> <<>>, received |-> <<>>,
     fetched |-> NULL, currentEvents |-> [id \in EventIds |-> NoRow]]

NoClients == [clients |-> [c \in Clients |-> ClosedClient], audience |-> <<>>]

OpenClients == {c \in Clients : wss.clients[c].readyState = "OPEN"}

\* The sockets that are open: each client with the number of its socket.
OpenSockets == {<<c, wss.clients[c].epoch>> : c \in OpenClients}

\* A broadcast that would queue the message for the clients without an open
\* socket as well.
broadcast_Queued(data) ==
    [clients |->
        [c \in Clients |->
            [wss.clients[c] EXCEPT
                !.inbox = Append(@, [n |-> Len(sent) + 1, data |-> data])]],
     audience |-> Append(wss.audience, OpenSockets)]

\* broadcast(data): client.send to every client whose readyState is OPEN. The
\* message travels with its place in the log of broadcasts.
broadcast(data) ==
    [clients |->
        [c \in Clients |->
            IF c \in OpenClients
            THEN [wss.clients[c] EXCEPT
                     !.inbox = Append(@, [n |-> Len(sent) + 1, data |-> data])]
            ELSE wss.clients[c]],
     audience |-> Append(wss.audience, OpenSockets)]

ServerUnchanged ==
    UNCHANGED <<appConfig, now, upstream, calendarCache, events, rsvps, pool,
                reqs, sent>>

MaxConnects == 2

\* setupWebSocket: new WebSocket(wsUrl); onopen logs and does nothing else.
WsOpen(c) ==
    /\ wss.clients[c].readyState = "CLOSED"
    /\ wss.clients[c].epoch < MaxConnects
    /\ wss' = [wss EXCEPT !.clients[c].readyState = "OPEN",
                          !.clients[c].epoch = @ + 1]
    /\ ServerUnchanged

\* The socket closes: what was in flight on it is lost; onclose schedules
\* setupWebSocket again.
WsClose(c) ==
    /\ wss.clients[c].readyState = "OPEN"
    /\ wss' = [wss EXCEPT !.clients[c].readyState = "CLOSED",
                          !.clients[c].inbox = <<>>]
    /\ ServerUnchanged

\* ws.onmessage: an attendance_update of a loaded event replaces its
\* attendingCount and attendees; every other message changes nothing.
WsMessage(c) ==
    /\ wss.clients[c].readyState = "OPEN"
    /\ wss.clients[c].inbox # <<>>
    /\ LET cl == wss.clients[c]
           message == Head(cl.inbox)
           data == message.data
           loaded == /\ data.type = "attendance_update"
                     /\ data.eventId \in EventIds
                     /\ cl.currentEvents[data.eventId] # NoRow
       IN
       wss' = [wss EXCEPT
                 !.clients[c].inbox = Tail(@),
                 !.clients[c].received =
                     Append(@, [n |-> message.n, data |-> data, epoch |-> cl.epoch]),
                 !.clients[c].currentEvents =
                     IF loaded
                     THEN [@ EXCEPT ![data.eventId] =
                              [attendingCount |-> data.attendingCount,
                               attendees |-> data.attendees]]
                     ELSE @]
    /\ ServerUnchanged

\* The answer of GET /api/events as far as the page shows it: per persisted
\* event its attendingCount and attendees.
ServerEvents ==
    [id \in EventIds |->
        IF events[id] = NoRow THEN NoRow
        ELSE [attendingCount |-> AttendingCount(id), attendees |-> AttendeesOf(id)]]

\* loadEvents: fetch('/api/events'), on page load, on the refresh button and on
\* a change of the calendar filter.
LoadEvents(c) ==
    /\ wss.clients[c].fetched = NULL
    /\ wss' = [wss EXCEPT !.clients[c].fetched = [k |-> "events", events |-> ServerEvents]]
    /\ ServerUnchanged

\* .then(events => { currentEvents = events; displayEvents(); })
LoadEventsThen(c) ==
    /\ wss.clients[c].fetched # NULL
    /\ wss' = [wss EXCEPT !.clients[c].currentEvents = wss.clients[c].fetched.events,
                          !.clients[c].fetched = NULL]
    /\ ServerUnchanged

(***************************************************************************)
(* POST /api/rsvp                                                          *)
(***************************************************************************)
Ann == Str(<<"A", "n", "n">>)
Bob == Str(<<"B", "o", "b">>)
AnnPadded == Str(<<" ", "A", "n", "n", " ">>)
Blank == Str(<<" ">>)
ScriptTag == Str(<<"<", "S", "c", "r", "i", "p", "t", ">">>)

RsvpBody(eventId, action, attendeeName) ==
    [eventId |-> eventId, action |-> action, attendeeName |-> attendeeName]

\* The request bodies tried: valid adds and removes, a blank name, an unknown event.
RsvpInputs ==
    { RsvpBody("cal-a", "add", AnnPadded),
      RsvpBody("cal-a", "add", Bob),
      RsvpBody("cal-a", "remove", Ann),
      RsvpBody("cal-a", "add", Blank),
      RsvpBody("cal-zzz", "add", Ann) }

LookupEvent(c, id) == IF id \in EventIds THEN ViewEvents(c)[id] ELSE NoRow

\* A payload that would carry the count from before the insert.
attendance_update_PreAdd(id) ==
    [type |-> "attendance_update", eventId |-> id,
     attendingCount |-> AttendingCount(id) - 1, attendees |-> AttendeesOf(id)]

attendance_update(id) ==
    [type |-> "attendance_update", eventId |-> id,
     attendingCount |-> AttendingCount(id), attendees |-> AttendeesOf(id)]

\* A handler that would validate the name before it looks the event up.
RsvpStartWith_NameFirst(r, inputs) ==
    \E in \in inputs, c \in Acquirable :
        /\ CanStart(r)
        /\ LET rq == [IdleReq EXCEPT !.kind = "rsvp", !.in = in]
               p == PoolAfterAcquire(c)
               event == LookupEvent(c, in.eventId)
               validatedName == validateAttendeeName(in.attendeeName)
           IN
           IF in.eventId = "" \/ in.action = ""
           THEN Finish(r, rq, c, Reply(400, FALSE, "required"), p)
           ELSE IF in.action \notin {"add", "remove"}
           THEN Finish(r, rq, c, Reply(400, FALSE, "invalid_action"), p)
           ELSE IF validatedName = NULL
           THEN Finish(r, rq, c, Reply(400, FALSE, "invalid_name"), p)
           ELSE IF c.tx = "aborted"
           THEN Finish(r, rq, c, Reply(500, FALSE, "error"), p)
           ELSE IF event = NoRow
           THEN Finish(r, rq, c, Reply(404, FALSE, "not_found"), p)
           ELSE /\ reqs' = [reqs EXCEPT ![r] =
                    [rq EXCEPT !.conn = c, !.event = event, !.name = validatedName,
                               !.pc = IF in.action = "remove" THEN "remove"
                                      ELSE IF event.attendance_limit # NULL
                                      THEN "count" ELSE "insert"]]
                /\ pool' = p
        /\ UNCHANGED <<appConfig, now, upstream, calendarCache, events, rsvps, sent, wss>>

\* pool.connect(), the checks of the body and SELECT * FROM events WHERE id = $1,
\* then the synchronous code up to the next statement.
RsvpStartWith(r, inputs) ==
    \E in \in inputs, c \in Acquirable :
        /\ CanStart(r)
        /\ LET rq == [IdleReq EXCEPT !.kind = "rsvp", !.in = in]
               p == PoolAfterAcquire(c)
               event == LookupEvent(c, in.eventId)
               validatedName == validateAttendeeName(in.attendeeName)
           IN
           IF in.eventId = "" \/ in.action = ""
           THEN Finish(r, rq, c, Reply(400, FALSE, "required"), p)
           ELSE IF in.action \notin {"add", "remove"}
           THEN Finish(r, rq, c, Reply(400, FALSE, "invalid_action"), p)
           ELSE IF c.tx = "aborted"
           THEN Finish(r, rq, c, Reply(500, FALSE, "error"), p)
           ELSE IF event = NoRow
           THEN Finish(r, rq, c, Reply(404, FALSE, "not_found"), p)
           ELSE IF validatedName = NULL
           THEN Finish(r, rq, c, Reply(400, FALSE, "invalid_name"), p)
           ELSE /\ reqs' = [reqs EXCEPT ![r] =
                    [rq EXCEPT !.conn = c, !.event = event, !.name = validatedName,
                               !.pc = IF in.action = "remove" THEN "remove"
                                      ELSE IF event.attendance_limit # NULL
                                      THEN "count" ELSE "insert"]]
                /\ pool' = p
        /\ UNCHANGED <<appConfig, now, upstream, calendarCache, events, rsvps, sent, wss>>

RsvpStart(r) == RsvpStartWith(r, RsvpInputs)

\* if (attendingCount >= event.attendance_limit): the event is full
IsFull_Strict(attendingCount, limit) == attendingCount > limit.v

IsFull(attendingCount, limit) == attendingCount >= limit.v

\* A capacity check that would tell the clients of the refusal.
RsvpCount_Announce(r) ==
    /\ reqs[r].kind = "rsvp" /\ reqs[r].pc = "count"
    /\ LET rq == reqs[r]
           attendingCount == AttendingCount(rq.in.eventId)
       IN
       IF IsFull(attendingCount, rq.event.attendance_limit)
       THEN /\ Finish(r, [rq EXCEPT !.attendingCount = Num(attendingCount)], rq.conn,
                   Reply(400, FALSE, "full"), pool)
            /\ sent' = Append(sent, attendance_update(rq.in.eventId))
            /\ wss' = broadcast(attendance_update(rq.in.eventId))
       ELSE /\ reqs' = [reqs EXCEPT ![r].pc = "insert",
                                    ![r].attendingCount = Num(attendingCount)]
            /\ UNCHANGED <<pool, sent, wss>>
    /\ UNCHANGED <<appConfig, now, upstream, calendarCache, events, rsvps>>

\* SELECT COUNT(*) FROM rsvps WHERE event_id = $1 AND attendance = 'yes', and the
\* comparison with the limit read by the first statement.
RsvpCount(r) ==
    /\ reqs[r].kind = "rsvp" /\ reqs[r].pc = "count"
    /\ LET rq == reqs[r]
           attendingCount == AttendingCount(rq.in.eventId)
       IN
       IF IsFull(attendingCount, rq.event.attendance_limit)
       THEN Finish(r, [rq EXCEPT !.attendingCount = Num(attendingCount)], rq.conn,
                   Reply(400, FALSE, "full"), pool)
       ELSE /\ reqs' = [reqs EXCEPT ![r].pc = "insert",
                                    ![r].attendingCount = Num(attendingCount)]
            /\ UNCHANGED pool
    /\ UNCHANGED <<appConfig, now, upstream, calendarCache, events, rsvps, sent, wss>>

\* INSERT INTO rsvps: the foreign key needs the event row, and waits for a
\* transaction that is deleting it.
RsvpInsert(r) ==
    /\ reqs[r].kind = "rsvp" /\ reqs[r].pc = "insert"
    /\ ~DeleteLocked(r, reqs[r].in.eventId)
    /\ LET rq == reqs[r] IN
       IF events[rq.in.eventId] = NoRow
       THEN /\ Finish(r, rq, rq.conn, Reply(500, FALSE, "error"), pool)
            /\ UNCHANGED rsvps
       ELSE /\ rsvps' = rsvps (+) SetToBag({<<rq.in.eventId, rq.name>>})
            /\ reqs' = [reqs EXCEPT ![r].pc = "attendees", ![r].inserted = 1,
                    ![r].preCount = Num(AttendingCount(rq.in.eventId))]
            /\ UNCHANGED pool
    /\ UNCHANGED <<appConfig, now, upstream, calendarCache, events, sent, wss>>

\* A DELETE without LIMIT 1: every matching row goes.
RsvpRemove_AllMatches(r) ==
    /\ reqs[r].kind = "rsvp" /\ reqs[r].pc = "remove"
    /\ ~DeleteLocked(r, reqs[r].in.eventId)
    /\ LET rq == reqs[r]
           key == <<rq.in.eventId, rq.name>>
           kept == {k \in RsvpKeys : k # key}
       IN
       /\ rsvps' = [k \in kept |-> rsvps[k]]
       /\ reqs' = [reqs EXCEPT ![r].pc = "attendees",
                               ![r].removed = CopiesIn(key, rsvps)]
    /\ UNCHANGED <<appConfig, now, upstream, calendarCache, events, pool, sent, wss>>

\* DELETE FROM rsvps WHERE id IN (SELECT id ... LIMIT 1)
RsvpRemove(r) ==
    /\ reqs[r].kind = "rsvp" /\ reqs[r].pc = "remove"
    /\ ~DeleteLocked(r, reqs[r].in.eventId)
    /\ LET rq == reqs[r]
           key == <<rq.in.eventId, rq.name>>
       IN
       /\ rsvps' = IF BagIn(key, rsvps) THEN rsvps (-) SetToBag({key}) ELSE rsvps
       /\ reqs' = [reqs EXCEPT ![r].pc = "attendees",
                               ![r].removed = IF BagIn(key, rsvps) THEN 1 ELSE 0]
    /\ UNCHANGED <<appConfig, now, upstream, calendarCache, events, pool, sent, wss>>

\* SELECT attendee_name FROM rsvps ..., broadcast(attendance_update), res.json
RsvpBroadcast(r) ==
    /\ reqs[r].kind = "rsvp" /\ reqs[r].pc = "attendees"
    /\ sent' = Append(sent, attendance_update(reqs[r].in.eventId))
    /\ wss' = broadcast(attendance_update(reqs[r].in.eventId))
    /\ Finish(r, reqs[r], reqs[r].conn, Reply(200, TRUE, "ok"), pool)
    /\ UNCHANGED <<appConfig, now, upstream, calendarCache, events, rsvps>>

\* The statement the handler awaits fails (the connection is lost, the statement
\* times out): the catch block replies 500. The handler runs no transaction, so
\* what its earlier statements wrote stays.
RsvpFail(r) ==
    /\ reqs[r].kind = "rsvp"
    /\ reqs[r].pc \in {"count", "insert", "remove", "attendees"}
    /\ Finish(r, reqs[r], reqs[r].conn, Reply(500, FALSE, "error"), pool)
    /\ UNCHANGED <<appConfig, now, upstream, calendarCache, events, rsvps, sent, wss>>

(***************************************************************************)
(* The calendar fetcher                                                    *)
(***************************************************************************)
\* A VEVENT block of a feed: UID, SUMMARY and the limit its DESCRIPTION states.
Block(uid, summary, limit) == [uid |-> uid, summary |-> summary, limit |-> limit]

\* A configured calendar: the shape of its URL decides how the id is extracted.
Calendar(shape, id, enabled) ==
    [url |-> [shape |-> shape, id |-> id], enabled |-> enabled]

DefaultConfig ==
    [calendars |-> <<Calendar("src", "A", TRUE), Calendar("ical", "B", TRUE)>>,
     autoFetch |-> TRUE]

NoUpstream == [s \in Sources |-> [status |-> "ok", blocks |-> <<>>]]

\* src=<id>, .../ical/<id>/... or calendar/<id>; NULL when no pattern matches.
ExtractCalendarId(url) ==
    IF url.shape \in {"src", "ical", "calendar"} THEN Text(url.id) ELSE NULL

\* The events of one feed, tagged with its calendar.
ParseBlocks(blocks, calendarId) ==
    [i \in 1..Len(blocks) |->
        [id |-> CalId(blocks[i].uid), title |-> blocks[i].summary,
         source |-> calendarId,
         attendance_limit_from_description |-> blocks[i].limit]]

\* The loop over appConfig.calendars from entry i on, allEvents so far.
RECURSIVE FetchFrom(_, _, _, _)
FetchFrom(calendars, up, i, allEvents) ==
    IF i > Len(calendars) THEN allEvents
    ELSE LET calendarEntry == calendars[i]
             calendarId == ExtractCalendarId(calendarEntry.url)
         IN
         IF ~calendarEntry.enabled
         THEN FetchFrom(calendars, up, i + 1, allEvents)
         ELSE IF calendarId = NULL
         THEN FetchFrom(calendars, up, i + 1, allEvents)
         ELSE IF up[calendarId.t].status = "throw"
         THEN allEvents
         ELSE IF up[calendarId.t].status # "ok"
         THEN FetchFrom(calendars, up, i + 1, allEvents)
         ELSE FetchFrom(calendars, up, i + 1,
                        allEvents \o ParseBlocks(up[calendarId.t].blocks, calendarId))

fetchCalendarEvents(calendars, up) ==
    IF Len(calendars) = 0 THEN <<>> ELSE FetchFrom(calendars, up, 1, <<>>)

(***************************************************************************)
(* GET /api/events: the reconciliation and the list query                  *)
(***************************************************************************)
\* What the calendars may answer to a fetch.
FeedsA ==
    { <<>>,
      <<Block("a", "t1", UNDEFINED)>>,
      <<Block("a", "t2", UNDEFINED)>>,
      <<Block("a", "t1", Num(3))>> }
FeedsB ==
    { <<>>,
      <<Block("b", "t1", UNDEFINED)>>,
      <<Block("a", "t1", UNDEFINED)>> }
\* A calendar answers with its feed, with a non-2xx status, or not at all.
Answers(feeds) ==
    [status : {"ok"}, blocks : feeds]
        \cup [status : {"http_error", "throw"}, blocks : {<<>>}]
Upstreams ==
    { [s \in Sources |-> IF s = "A" THEN a ELSE b] :
        a \in Answers(FeedsA), b \in Answers(FeedsB) }

ListInputs == {[timeRange |-> "all"]}

\* pool.connect() and getCachedCalendarEvents() up to its await.
ListStartWith(r, inputs) ==
    \E in \in inputs, c \in Acquirable :
        /\ CanStart(r)
        /\ LET rq == [IdleReq EXCEPT !.kind = "list", !.in = in, !.conn = c] IN
           reqs' = [reqs EXCEPT ![r] =
               IF ~appConfig.autoFetch THEN [rq EXCEPT !.pc = "query"]
               ELSE IF now - calendarCache.lastFetch > CACHE_TTL
               THEN [rq EXCEPT !.pc = "fetch", !.fetchNow = now]
               ELSE [rq EXCEPT !.pc = "begin",
                               !.calendarEvents = calendarCache.events]]
        /\ pool' = PoolAfterAcquire(c)
        /\ UNCHANGED <<appConfig, now, upstream, calendarCache, events, rsvps, sent, wss>>

ListStart(r) == ListStartWith(r, ListInputs)

\* fetchCalendarEvents() returns: the cache takes its result and the time read
\* before the fetch. ups is what the calendars may answer.
ListFetchedWith(r, ups) ==
    /\ reqs[r].kind = "list" /\ reqs[r].pc = "fetch"
    /\ \E up \in ups :
        LET fetched == fetchCalendarEvents(appConfig.calendars, up) IN
        /\ upstream' = up
        /\ calendarCache' = [events |-> fetched, lastFetch |-> reqs[r].fetchNow]
        /\ reqs' = [reqs EXCEPT ![r].pc = "begin", ![r].calendarEvents = fetched]
    /\ UNCHANGED <<appConfig, now, events, rsvps, pool, sent, wss>>

ListFetched(r) == ListFetchedWith(r, Upstreams)

\* Date.now() moves on, by a millisecond or by the time-to-live of the cache.
MaxTicks == 3
Ticks == ((now - StartTime) \div CACHE_TTL) + ((now - StartTime) % CACHE_TTL)
Tick ==
    /\ Ticks < MaxTicks
    /\ \E d \in {1, CACHE_TTL} : now' = now + d
    /\ UNCHANGED <<appConfig, upstream, calendarCache, events, rsvps, pool, reqs,
                   sent, wss>>

\* A handler that would go on without BEGIN: every statement commits on its own.
ListBegin_NoTransaction(r) ==
    /\ reqs[r].kind = "list" /\ reqs[r].pc = "begin"
    /\ LET rq == reqs[r] IN
       IF rq.conn.tx = "aborted"
       THEN Finish(r, rq, rq.conn, Reply(500, FALSE, "error"), pool)
       ELSE /\ reqs' = [reqs EXCEPT ![r].pc = IF Len(rq.calendarEvents) > 0
                                              THEN "existing" ELSE "stale"]
            /\ UNCHANGED pool
    /\ UNCHANGED <<appConfig, now, upstream, calendarCache, events, rsvps, sent, wss>>

\* BEGIN. On a connection whose transaction is aborted every statement fails.
ListBegin(r) ==
    /\ reqs[r].kind = "list" /\ reqs[r].pc = "begin"
    /\ LET rq == reqs[r] IN
       IF rq.conn.tx = "aborted"
       THEN Finish(r, rq, rq.conn, Reply(500, FALSE, "error"), pool)
       ELSE /\ reqs' = [reqs EXCEPT ![r].conn.tx = "open",
                           ![r].pc = IF Len(rq.calendarEvents) > 0
                                     THEN "existing" ELSE "stale"]
            /\ UNCHANGED pool
    /\ UNCHANGED <<appConfig, now, upstream, calendarCache, events, rsvps, sent, wss>>

\* SELECT id, attendance_limit FROM events: existingEventsMap
ListExisting(r) ==
    /\ reqs[r].kind = "list" /\ reqs[r].pc = "existing"
    /\ LET view == ViewEvents(reqs[r].conn) IN
       reqs' = [reqs EXCEPT ![r].pc = "upsert", ![r].idx = 1,
                   ![r].existing = [id \in EventIds |->
                       IF view[id] = NoRow THEN NoRow ELSE view[id].attendance_limit]]
    /\ UNCHANGED <<appConfig, now, upstream, calendarCache, events, rsvps, pool, sent, wss>>

\* A rule that would let the stored limit win over the description.
finalAttendanceLimit_StoredFirst(event, existingEvent) ==
    IF existingEvent # NoRow THEN existingEvent
    ELSE IF event.attendance_limit_from_description # UNDEFINED
    THEN event.attendance_limit_from_description
    ELSE NULL

finalAttendanceLimit(event, existingEvent) ==
    IF event.attendance_limit_from_description # UNDEFINED
    THEN event.attendance_limit_from_description
    ELSE IF existingEvent # NoRow THEN existingEvent
    ELSE NULL

\* INSERT INTO events ... ON CONFLICT (id) DO UPDATE for the next fetched event.
ListUpsert(r) ==
    /\ reqs[r].kind = "list" /\ reqs[r].pc = "upsert"
    /\ LET rq == reqs[r]
           event == rq.calendarEvents[rq.idx]
           row == EventRow(event.title, event.source,
                           finalAttendanceLimit(event, rq.existing[event.id]))
           next == IF rq.idx = Len(rq.calendarEvents) THEN "stale" ELSE "upsert"
       IN
       /\ ~WriteLocked(r, event.id)
       /\ IF rq.conn.tx = "open"
          THEN /\ reqs' = [reqs EXCEPT ![r].conn.upserts[event.id] = row,
                              ![r].idx = rq.idx + 1, ![r].pc = next]
               /\ UNCHANGED events
          ELSE /\ reqs' = [reqs EXCEPT ![r].idx = rq.idx + 1, ![r].pc = next]
               /\ events' = [events EXCEPT ![event.id] = row]
    /\ UNCHANGED <<appConfig, now, upstream, calendarCache, rsvps, pool, sent, wss>>

\* calendarEventsBySource[source], or the empty set
CalendarIdsOf(calendarEvents, source) ==
    {calendarEvents[i].id :
        i \in {i \in 1..Len(calendarEvents) : calendarEvents[i].source = source}}

\* A comparison across calendars: a row is stale when some fetched calendar
\* does not hold its id.
StaleEventIds_AcrossSources(view, calendarEvents) ==
    {id \in EventIds :
        /\ view[id] # NoRow
        /\ view[id].source # NULL
        /\ \E i \in 1..Len(calendarEvents) :
               id \notin CalendarIdsOf(calendarEvents, calendarEvents[i].source)}

\* A stale query that would miss the run's own upserts (run on the committed rows).
StaleEventIds_Committed(view, calendarEvents) ==
    {id \in EventIds :
        /\ events[id] # NoRow
        /\ events[id].source # NULL
        /\ id \notin CalendarIdsOf(calendarEvents, events[id].source)}

\* staleEventIds: per source of a persisted row, the ids its fetch does not hold
StaleEventIds(view, calendarEvents) ==
    {id \in EventIds :
        /\ view[id] # NoRow
        /\ view[id].source # NULL
        /\ id \notin CalendarIdsOf(calendarEvents, view[id].source)}

\* SELECT id, source FROM events WHERE source IS NOT NULL, and staleEventIds
ListStale(r) ==
    /\ reqs[r].kind = "list" /\ reqs[r].pc = "stale"
    /\ LET staleEventIds ==
               StaleEventIds(ViewEvents(reqs[r].conn), reqs[r].calendarEvents)
       IN
       reqs' = [reqs EXCEPT ![r].stale = staleEventIds,
                   ![r].pc = IF staleEventIds # {} THEN "delete" ELSE "commit"]
    /\ UNCHANGED <<appConfig, now, upstream, calendarCache, events, rsvps, pool, sent, wss>>

\* A schema whose rsvps.event_id would not cascade.
WithoutRsvpsOf_NoCascade(ids) == rsvps

\* The RSVP rows that go with deleted events (ON DELETE CASCADE).
WithoutRsvpsOf(ids) ==
    LET kept == {k \in RsvpKeys : k[1] \notin ids} IN
    [k \in kept |-> rsvps[k]]

\* DELETE FROM events WHERE id = ANY(staleEventIds)
ListDelete(r) ==
    /\ reqs[r].kind = "list" /\ reqs[r].pc = "delete"
    /\ LET rq == reqs[r]
           view == ViewEvents(rq.conn)
           ids == {id \in rq.stale : view[id] # NoRow}
       IN
       /\ \A id \in ids : ~WriteLocked(r, id)
       /\ IF rq.conn.tx = "open"
          THEN /\ reqs' = [reqs EXCEPT ![r].pc = "commit",
                              ![r].conn.deletes = rq.conn.deletes \cup ids,
                              ![r].conn.upserts =
                                  [id \in EventIds |->
                                      IF id \in ids THEN NoRow
                                      ELSE rq.conn.upserts[id]]]
               /\ UNCHANGED <<events, rsvps>>
          ELSE /\ reqs' = [reqs EXCEPT ![r].pc = "commit"]
               /\ events' = [id \in EventIds |->
                                IF id \in ids THEN NoRow ELSE events[id]]
               /\ rsvps' = WithoutRsvpsOf(ids)
    /\ UNCHANGED <<appConfig, now, upstream, calendarCache, pool, sent, wss>>

\* COMMIT: the transaction's writes become the committed rows.
ListCommit(r) ==
    /\ reqs[r].kind = "list" /\ reqs[r].pc = "commit"
    /\ LET c == reqs[r].conn IN
       /\ events' = ViewEvents(c)
       /\ rsvps' = WithoutRsvpsOf(c.deletes)
    /\ reqs' = [reqs EXCEPT ![r].pc = "query", ![r].conn = CleanConn,
                            ![r].after = [events |-> events', rsvps |-> rsvps']]
    /\ UNCHANGED <<appConfig, now, upstream, calendarCache, pool, sent, wss>>

\* WHERE date > NOW(), WHERE date < NOW(), or no filter for 'all' and for any
\* other value of timeRange.
InTimeRange_Inclusive(row, timeRange) ==
    CASE timeRange = "future" -> row.date >= now
      [] timeRange = "past" -> row.date <= now
      [] OTHER -> TRUE

InTimeRange(row, timeRange) ==
    CASE timeRange = "future" -> row.date > now
      [] timeRange = "past" -> row.date < now
      [] OTHER -> TRUE

\* ORDER BY e.date: the ids in an order of nondecreasing date; rows of one date
\* come in either order.
OrderedByDate(ids, view) ==
    { order \in [1..Cardinality(ids) -> ids] :
        /\ \A i, j \in 1..Cardinality(ids) : i # j => order[i] # order[j]
        /\ \A i, j \in 1..Cardinality(ids) :
               i < j => view[order[i]].date <= view[order[j]].date }

\* A row of eventsWithAttendance: e.*, attendingCount, attendees (an event
\* without RSVP gets 0 and []).
eventsWithAttendance(id, row) ==
    [id |-> id, event |-> row, attendingCount |-> AttendingCount(id),
     attendees |-> AttendeesOf(id)]

\* The list query and res.json(eventsWithAttendance)
ListQuery(r) ==
    /\ reqs[r].kind = "list" /\ reqs[r].pc = "query"
    /\ LET rq == reqs[r]
           view == ViewEvents(rq.conn)
           ids == {id \in EventIds :
                     view[id] # NoRow /\ InTimeRange(view[id], rq.in.timeRange)}
       IN
       IF rq.conn.tx = "aborted"
       THEN Finish(r, rq, rq.conn, Reply(500, FALSE, "error"), pool)
       ELSE \E order \in OrderedByDate(ids, view) :
               Finish(r, [rq EXCEPT !.list =
                             [i \in 1..Len(order) |->
                                 eventsWithAttendance(order[i], view[order[i]])]],
                      rq.conn, Reply(200, TRUE, "ok"), pool)
    /\ UNCHANGED <<appConfig, now, upstream, calendarCache, events, rsvps, sent, wss>>

\* A statement of the transaction fails: PostgreSQL aborts the transaction and
\* drops its writes, the catch block replies 500 and the connection goes back to
\* the pool without ROLLBACK.
ListFail(r) ==
    /\ reqs[r].kind = "list"
    /\ reqs[r].pc \in {"existing", "upsert", "stale", "delete", "commit"}
    /\ Finish(r, reqs[r],
              IF reqs[r].conn.tx = "open" THEN AbortedConn ELSE reqs[r].conn,
              Reply(500, FALSE, "error"), pool)
    /\ UNCHANGED <<appConfig, now, upstream, calendarCache, events, rsvps, sent, wss>>

\* An idle connection is closed (idle timeout): its transaction is gone with it.
IdleClose ==
    /\ \E c \in BagToSet(pool) : pool' = pool (-) SetToBag({c})
    /\ UNCHANGED <<appConfig, now, upstream, calendarCache, events, rsvps, reqs, sent, wss>>

(***************************************************************************)
(* PUT /api/events/:id                                                     *)
(***************************************************************************)
\* process.env.ADMIN_API_KEY, and the middleware that compares the x-admin-key
\* header with it. The route of PUT /api/events/:id is registered without it.
ADMIN_API_KEY == Str(<<"k", "e", "y">>)
requireAdminKey(providedKey) ==
    IF ADMIN_API_KEY = UNDEFINED THEN Reply(500, FALSE, "configuration")
    ELSE IF providedKey # ADMIN_API_KEY THEN Reply(401, FALSE, "unauthorized")
    ELSE NoReply

NaN == [k |-> "nan"]
Digits == <<"0", "1", "2", "3", "4", "5", "6", "7", "8", "9">>
IsDigit(c) == \E d \in 1..10 : Digits[d] = c
DigitValue(c) == (CHOOSE d \in 1..10 : Digits[d] = c) - 1

\* The value of the leading digits of chars, acc so far.
RECURSIVE ParseDigits(_, _)
ParseDigits(chars, acc) ==
    IF chars = <<>> \/ ~IsDigit(Head(chars)) THEN acc
    ELSE ParseDigits(Tail(chars), 10 * acc + DigitValue(Head(chars)))

\* parseInt(value, 10) of a number or of a string
parseInt(value) ==
    IF value.k = "int" THEN value
    ELSE IF value.k # "str" THEN NaN
    ELSE LET t == TrimStart(value.s)
             negative == t # <<>> /\ Head(t) = "-"
             digits == IF t # <<>> /\ Head(t) \in {"-", "+"} THEN Tail(t) ELSE t
         IN
         IF digits = <<>> \/ ~IsDigit(Head(digits)) THEN NaN
         ELSE Num(IF negative THEN 0 - ParseDigits(digits, 0)
                  ELSE ParseDigits(digits, 0))

PutBody(keys, attendanceLimit) == [keys |-> keys, attendanceLimit |-> attendanceLimit]

\* The requests tried: set a limit, clear it, a negative limit, an extra field.
PutInputs ==
    { [id |-> "cal-a", body |-> PutBody({"attendanceLimit"}, Num(5))],
      [id |-> "cal-a", body |-> PutBody({"attendanceLimit"}, NULL)],
      [id |-> "cal-a", body |-> PutBody({"attendanceLimit"}, Num(-1))],
      [id |-> "cal-a", body |-> PutBody({"attendanceLimit", "title"}, Num(5))] }

\* attendanceLimit === null || attendanceLimit === '' ? null : parseInt(...)
ParsedLimit(attendanceLimit) ==
    IF attendanceLimit = NULL \/ attendanceLimit = Str(<<>>) THEN NULL
    ELSE parseInt(attendanceLimit)

\* pool.connect() and the validation of the body
PutStartWith(r, inputs) ==
    \E in \in inputs, c \in Acquirable :
        /\ CanStart(r)
        /\ LET rq == [IdleReq EXCEPT !.kind = "put", !.in = in]
               p == PoolAfterAcquire(c)
               limit == ParsedLimit(in.body.attendanceLimit)
           IN
           IF Cardinality(in.body.keys) # 1 \/ in.body.attendanceLimit = UNDEFINED
           THEN Finish(r, rq, c, Reply(400, FALSE, "only_limit"), p)
           ELSE IF limit # NULL /\ (limit = NaN \/ limit.v < 0)
           THEN Finish(r, rq, c, Reply(400, FALSE, "invalid_limit"), p)
           ELSE /\ reqs' = [reqs EXCEPT ![r] =
                                [rq EXCEPT !.conn = c, !.pc = "update"]]
                /\ pool' = p
        /\ UNCHANGED <<appConfig, now, upstream, calendarCache, events, rsvps, sent, wss>>

PutStart(r) == PutStartWith(r, PutInputs)

\* UPDATE events SET attendance_limit = $1 WHERE id = $2: waits for a transaction
\* that holds the row, then writes the committed row if there is one.
PutUpdate(r) ==
    /\ reqs[r].kind = "put" /\ reqs[r].pc = "update"
    /\ LET rq == reqs[r]
           id == rq.in.id
           limit == ParsedLimit(rq.in.body.attendanceLimit)
       IN
       IF rq.conn.tx = "aborted"
       THEN /\ Finish(r, rq, rq.conn, Reply(500, FALSE, "error"), pool)
            /\ UNCHANGED events
       ELSE /\ id \in EventIds /\ events[id] # NoRow => ~WriteLocked(r, id)
            /\ events' = IF id \in EventIds /\ events[id] # NoRow
                         THEN [events EXCEPT ![id].attendance_limit = limit]
                         ELSE events
            /\ reqs' = [reqs EXCEPT ![r].pc = "select"]
            /\ UNCHANGED pool
    /\ UNCHANGED <<appConfig, now, upstream, calendarCache, rsvps, sent, wss>>

\* SELECT * FROM events WHERE id = $1: updatedEvent
PutSelect(r) ==
    /\ reqs[r].kind = "put" /\ reqs[r].pc = "select"
    /\ LET rq == reqs[r]
           updatedEvent == LookupEvent(rq.conn, rq.in.id)
       IN
       IF updatedEvent = NoRow
       THEN Finish(r, rq, rq.conn, Reply(404, FALSE, "not_found"), pool)
       ELSE /\ reqs' = [reqs EXCEPT ![r].pc = "attendees", ![r].event = updatedEvent]
            /\ UNCHANGED pool
    /\ UNCHANGED <<appConfig, now, upstream, calendarCache, events, rsvps, sent, wss>>

\* A payload that would leave the attendees out.
event_update_NoAttendees(id, updatedEvent) ==
    [type |-> "event_update", eventId |-> id, event |-> updatedEvent,
     attendingCount |-> 0, attendees |-> EmptyBag]

\* The payload of event_update: the row read back, attendees, attendingCount.
event_update(id, updatedEvent) ==
    [type |-> "event_update", eventId |-> id, event |-> updatedEvent,
     attendingCount |-> AttendingCount(id), attendees |-> AttendeesOf(id)]

\* SELECT attendee_name FROM rsvps ..., broadcast(event_update), res.json
PutBroadcast(r) ==
    /\ reqs[r].kind = "put" /\ reqs[r].pc = "attendees"
    /\ LET rq == reqs[r] IN
       /\ sent' = Append(sent, event_update(rq.in.id, rq.event))
       /\ wss' = broadcast(event_update(rq.in.id, rq.event))
       /\ Finish(r, rq, rq.conn, Reply(200, TRUE, "ok"), pool)
    /\ UNCHANGED <<appConfig, now, upstream, calendarCache, events, rsvps>>

\* The statement the handler awaits fails: the catch block replies 500, and an
\* UPDATE that ran before stays.
PutFail(r) ==
    /\ reqs[r].kind = "put"
    /\ reqs[r].pc \in {"update", "select", "attendees"}
    /\ Finish(r, reqs[r], reqs[r].conn, Reply(500, FALSE, "error"), pool)
    /\ UNCHANGED <<appConfig, now, upstream, calendarCache, events, rsvps, sent, wss>>

(***************************************************************************)
(* The VEVENT loop of the fetcher, field by field. A block of a feed is    *)
(* given by the text that follows SUMMARY:, DTSTART...:, DTEND...:, UID:   *)
(* on its line (UNDEFINED when the block has no such line) and by its      *)
(* decoded DESCRIPTION ('' when it has none). ParseBlocks above is this    *)
(* loop on blocks that have the three fields and one DTSTART.              *)
(***************************************************************************)
Vevent(summary, dtstart, dtend, uid, description) ==
    [summary |-> summary, dtstart |-> dtstart, dtend |-> dtend, uid |-> uid,
     description |-> description]

\* ([0-9T]+): the longest run of digits and T at the start of the value; no
\* match when there is none.
RECURSIVE DateRun(_)
DateRun(chars) ==
    IF chars # <<>> /\ (IsDigit(Head(chars)) \/ Head(chars) = "T")
    THEN <<Head(chars)>> \o DateRun(Tail(chars))
    ELSE <<>>
DateMatch(field) ==
    IF field = UNDEFINED \/ DateRun(field.s) = <<>> THEN NULL
    ELSE Str(DateRun(field.s))

\* value.slice(from, to)
Slice(chars, from, to) == SubSeq(chars, from + 1, to)
\* `${slice(0,4)}-${slice(4,6)}-${slice(6,8)}T00:00:00Z`
AsMidnight(v) ==
    Slice(v, 0, 4) \o <<"-">> \o Slice(v, 4, 6) \o <<"-">> \o Slice(v, 6, 8)
        \o <<"T", "0", "0", ":", "0", "0", ":", "0", "0", "Z">>
\* `${slice(0,4)}-${slice(4,6)}-${slice(6,8)}T${slice(9,11)}:${slice(11,13)}:${slice(13,15)}Z`
AsTimestamp(v) ==
    Slice(v, 0, 4) \o <<"-">> \o Slice(v, 4, 6) \o <<"-">> \o Slice(v, 6, 8)
        \o <<"T">> \o Slice(v, 9, 11) \o <<":">> \o Slice(v, 11, 13)
        \o <<":">> \o Slice(v, 13, 15) \o <<"Z">>
EndsWithZ(v) == v # <<>> /\ v[Len(v)] = "Z"
IncludesT(v) == \E i \in 1..Len(v) : v[i] = "T"

\* The normalization of start; NULL stands for `continue`.
NormalizedStart(v) ==
    IF Len(v) = 8 THEN Str(AsMidnight(v))
    ELSE IF Len(v) = 15 /\ EndsWithZ(v) THEN Str(AsTimestamp(v))
    ELSE IF Len(v) = 15 /\ IncludesT(v) THEN Str(AsTimestamp(v))
    ELSE NULL

\* The normalization of end: a value of another length stays as it is.
NormalizedEnd(match) ==
    IF match = NULL THEN NULL
    ELSE IF Len(match.s) = 8 THEN Str(AsMidnight(match.s))
    ELSE IF Len(match.s) = 15 /\ EndsWithZ(match.s) THEN Str(AsTimestamp(match.s))
    ELSE IF Len(match.s) = 15 /\ IncludesT(match.s) THEN Str(AsTimestamp(match.s))
    ELSE match

\* /limit:?\s*(\d+)/i at position i of the description: where the digits start,
\* or 0 when the pattern does not match there.
RECURSIVE SkipSpace(_, _)
SkipSpace(chars, j) ==
    IF j <= Len(chars) /\ chars[j] \in WhiteSpace THEN SkipSpace(chars, j + 1) ELSE j
LimitDigitsAt(chars, i) ==
    IF i + 4 > Len(chars) \/ ToLower(SubSeq(chars, i, i + 4)) # <<"l", "i", "m", "i", "t">>
    THEN 0
    ELSE LET afterColon == IF i + 5 <= Len(chars) /\ chars[i + 5] = ":"
                           THEN i + 6 ELSE i + 5
             j == SkipSpace(chars, afterColon)
         IN
         IF j <= Len(chars) /\ IsDigit(chars[j]) THEN j ELSE 0

\* A scan that would take a limit of 0 for no limit.
attendanceLimitFromDescription_Truthy(description) ==
    LET chars == description.s
        hits == {i \in 1..Len(chars) : LimitDigitsAt(chars, i) # 0}
        first == CHOOSE i \in hits : \A h \in hits : i <= h
        n == ParseDigits(SubSeq(chars, LimitDigitsAt(chars, first), Len(chars)), 0)
    IN
    IF chars = <<>> \/ hits = {} \/ n = 0 THEN UNDEFINED ELSE Num(n)

\* attendanceLimitFromDescription: parseInt of the digits of the first match,
\* undefined without a description or a match.
attendanceLimitFromDescription(description) ==
    LET chars == description.s
        hits == {i \in 1..Len(chars) : LimitDigitsAt(chars, i) # 0}
        first == CHOOSE i \in hits : \A h \in hits : i <= h
    IN
    IF chars = <<>> \/ hits = {} THEN UNDEFINED
    ELSE Num(ParseDigits(SubSeq(chars, LimitDigitsAt(chars, first), Len(chars)), 0))

\* A loop body that would not ask for the UID.
ParseVevent_NoUidCheck(block, calendarId) ==
    LET dtstartMatch == DateMatch(block.dtstart)
        uid == IF block.uid = UNDEFINED THEN <<>> ELSE block.uid.s
    IN
    IF block.summary # UNDEFINED /\ dtstartMatch # NULL
    THEN IF NormalizedStart(dtstartMatch.s) = NULL THEN <<>>
         ELSE << [id |-> Str(Trim(<<"c", "a", "l", "-">> \o uid)),
                  title |-> Str(Trim(block.summary.s)),
                  date |-> NormalizedStart(dtstartMatch.s),
                  endDate |-> NormalizedEnd(DateMatch(block.dtend)),
                  description |-> block.description,
                  source |-> calendarId,
                  attendance_limit_from_description |->
                      attendanceLimitFromDescription(block.description)] >>
    ELSE <<>>

\* The body of the loop over veventBlocks: the events one block adds to allEvents.
ParseVevent(block, calendarId) ==
    LET dtstartMatch == DateMatch(block.dtstart) IN
    IF block.summary # UNDEFINED /\ dtstartMatch # NULL /\ block.uid # UNDEFINED
    THEN IF NormalizedStart(dtstartMatch.s) = NULL THEN <<>>
         ELSE << [id |-> Str(Trim(<<"c", "a", "l", "-">> \o block.uid.s)),
                  title |-> Str(Trim(block.summary.s)),
                  date |-> NormalizedStart(dtstartMatch.s),
                  endDate |-> NormalizedEnd(DateMatch(block.dtend)),
                  description |-> block.description,
                  source |-> calendarId,
                  attendance_limit_from_description |->
                      attendanceLimitFromDescription(block.description)] >>
    ELSE <<>>

RECURSIVE ParseVevents(_, _)
ParseVevents(blocks, calendarId) ==
    IF blocks = <<>> THEN <<>>
    ELSE ParseVevent(Head(blocks), calendarId) \o ParseVevents(Tail(blocks), calendarId)

\* The fetch of calendar A's feed of such blocks fills the cache.
FetchParsed ==
    /\ calendarCache.lastFetch = 0
    /\ calendarCache' = [events |-> ParseVevents(upstream["A"].blocks, Text("A")),
                         lastFetch |-> now]
    /\ UNCHANGED <<appConfig, now, upstream, events, rsvps, pool, reqs, sent, wss>>

(***************************************************************************)
(* The RSVP path alone: one calendar event with its limit and RSVP rows as *)
(* an earlier reconciliation and earlier requests left them.               *)
(***************************************************************************)
InitRsvpDbs ==
    { <<Num(1), EmptyBag>>,
      <<Num(2), SetToBag({<<"cal-a", Ann>>, <<"cal-a", Bob>>})>>,
      <<Num(2), SetToBag({<<"cal-a", Ann>>})>>,
      <<NULL, EmptyBag>> }

InitRsvp ==
    /\ appConfig = DefaultConfig
    /\ now = StartTime
    /\ upstream = NoUpstream
    /\ calendarCache = [events |-> <<>>, lastFetch |-> 0]
    /\ \E db \in InitRsvpDbs :
        /\ events = [NoEvents EXCEPT !["cal-a"] = EventRow("t1", Text("A"), db[1])]
        /\ rsvps = db[2]
    /\ pool = EmptyBag
    /\ reqs = [r \in Reqs |-> IdleReq]
    /\ sent = <<>>
    /\ wss = NoClients

NextRsvp ==
    \E r \in Reqs :
        \/ RsvpStart(r)
        \/ RsvpCount(r)
        \/ RsvpInsert(r)
        \/ RsvpRemove(r)
        \/ RsvpBroadcast(r)

SpecRsvp == InitRsvp /\ [][NextRsvp]_vars

(***************************************************************************)
(* The reconciliation: list requests that overlap, calendars that change   *)
(* or fail between fetches, statements that fail, over a database as       *)
(* earlier runs and requests left it.                                      *)
(***************************************************************************)
SyncReqs == 1..MaxSyncReqs

InitSyncDbs ==
    { <<NoEvents, EmptyBag>>,
      <<[NoEvents EXCEPT !["cal-a"] = EventRow("t1", Text("A"), NULL)],
        SetToBag({<<"cal-a", Ann>>})>>,
      <<[NoEvents EXCEPT !["cal-a"] = EventRow("t1", Text("A"), Num(10)),
                         !["cal-b"] = EventRow("t1", Text("B"), NULL)],
        SetToBag({<<"cal-a", Ann>>, <<"cal-b", Bob>>})>> }

InitSync ==
    /\ appConfig = DefaultConfig
    /\ now = StartTime
    /\ upstream = NoUpstream
    /\ calendarCache = [events |-> <<>>, lastFetch |-> 0]
    /\ \E db \in InitSyncDbs :
        /\ events = db[1]
        /\ rsvps = db[2]
    /\ pool = EmptyBag
    /\ reqs = [r \in Reqs |-> IdleReq]
    /\ sent = <<>>
    /\ wss = NoClients

NextSync ==
    \/ \E r \in SyncReqs :
        \/ ListStart(r)
        \/ ListFetched(r)
        \/ ListBegin(r)
        \/ ListExisting(r)
        \/ ListUpsert(r)
        \/ ListStale(r)
        \/ ListDelete(r)
        \/ ListCommit(r)
        \/ ListQuery(r)
        \/ ListFail(r)
    \/ IdleClose

SpecSync == InitSync /\ [][NextSync]_vars

(***************************************************************************)
(* The fetcher over the configurations: one list request at a time, two    *)
(* calendars in either order, each enabled or not, with a URL the id can   *)
(* be extracted from or not, each answering with a feed, a non-2xx status  *)
(* or not at all.                                                          *)
(***************************************************************************)
FetchReqs == {1}

CalendarEntries(id) ==
    {Calendar(shape, id, enabled) : shape \in {"src", "other"}, enabled \in BOOLEAN}

Configs ==
    { [calendars |-> <<c1, c2>>, autoFetch |-> TRUE] :
        c1 \in CalendarEntries("A"), c2 \in CalendarEntries("B") }
    \cup
    { [calendars |-> <<c1, c2>>, autoFetch |-> TRUE] :
        c1 \in CalendarEntries("B"), c2 \in CalendarEntries("A") }

InitFetch ==
    /\ appConfig \in Configs
    /\ now = StartTime
    /\ upstream = NoUpstream
    /\ calendarCache = [events |-> <<>>, lastFetch |-> 0]
    /\ \E db \in InitSyncDbs :
        /\ events = db[1]
        /\ rsvps = db[2]
    /\ pool = EmptyBag
    /\ reqs = [r \in Reqs |-> IdleReq]
    /\ sent = <<>>
    /\ wss = NoClients

NextFetch ==
    \E r \in FetchReqs :
        \/ ListStart(r)
        \/ ListFetched(r)
        \/ ListBegin(r)
        \/ ListExisting(r)
        \/ ListUpsert(r)
        \/ ListStale(r)
        \/ ListDelete(r)
        \/ ListCommit(r)
        \/ ListQuery(r)

SpecFetch == InitFetch /\ [][NextFetch]_vars

(***************************************************************************)
(* The admin's limit against the reconciliation: list and PUT requests     *)
(* that overlap, within the life of one cached fetch.                      *)
(***************************************************************************)

InitAdmin ==
    /\ appConfig = DefaultConfig
    /\ now = StartTime
    /\ upstream = NoUpstream
    /\ \E list \in { ParseBlocks(<<Block("a", "t1", UNDEFINED)>>, Text("A")),
                     ParseBlocks(<<Block("a", "t1", Num(3))>>, Text("A")) } :
        calendarCache = [events |-> list, lastFetch |-> StartTime]
    /\ \E limit \in {NULL, Num(10)} :
        events = [NoEvents EXCEPT !["cal-a"] = EventRow("t1", Text("A"), limit)]
    /\ rsvps = SetToBag({<<"cal-a", Ann>>})
    /\ pool = EmptyBag
    /\ reqs = [r \in Reqs |-> IdleReq]
    /\ sent = <<>>
    /\ wss = NoClients

NextAdmin ==
    \E r \in Reqs :
        \/ ListStart(r)
        \/ ListBegin(r)
        \/ ListExisting(r)
        \/ ListUpsert(r)
        \/ ListStale(r)
        \/ ListCommit(r)
        \/ ListQuery(r)
        \/ PutStart(r)
        \/ PutUpdate(r)
        \/ PutSelect(r)
        \/ PutBroadcast(r)

SpecAdmin == InitAdmin /\ [][NextAdmin]_vars

(***************************************************************************)
(* RSVP requests against the reconciliation: a list request whose cached   *)
(* fetch holds the event or not, overlapping with adds and removes.        *)
(***************************************************************************)

InitCascade ==
    /\ appConfig = DefaultConfig
    /\ now = StartTime
    /\ upstream = NoUpstream
    /\ \E list \in { <<>>, ParseBlocks(<<Block("a", "t1", UNDEFINED)>>, Text("A")) } :
        calendarCache = [events |-> list, lastFetch |-> StartTime]
    /\ \E limit \in {NULL, Num(2)} :
        events = [NoEvents EXCEPT !["cal-a"] = EventRow("t1", Text("A"), limit)]
    /\ rsvps = SetToBag({<<"cal-a", Ann>>})
    /\ pool = EmptyBag
    /\ reqs = [r \in Reqs |-> IdleReq]
    /\ sent = <<>>
    /\ wss = NoClients

NextCascade ==
    \E r \in Reqs :
        \/ RsvpStart(r)
        \/ RsvpCount(r)
        \/ RsvpInsert(r)
        \/ RsvpRemove(r)
        \/ RsvpBroadcast(r)
        \/ ListStart(r)
        \/ ListBegin(r)
        \/ ListExisting(r)
        \/ ListUpsert(r)
        \/ ListStale(r)
        \/ ListDelete(r)
        \/ ListCommit(r)
        \/ ListQuery(r)
        \/ ListFail(r)

SpecCascade == InitCascade /\ [][NextCascade]_vars

(***************************************************************************)
(* The checks of POST /api/rsvp over the names and the event ids: two      *)
(* requests, names at and around every rule of validateAttendeeName, ids   *)
(* that are persisted or not.                                              *)
(***************************************************************************)
TwoReqs == {1, 2}

Xs(n) == [i \in 1..n |-> "x"]

NameInputs ==
    { RsvpBody("cal-a", "add", name) : name \in { UNDEFINED, Str(<<>>), Blank, Ann, AnnPadded, ScriptTag,
                                                  Str(<<"J","A","V","A","S","C","R","I","P","T",":","x">>),
                                                  Str(<<"a"," ","o","n","E","r","r","o","r","=">>),
                                                  Str(<<"O","n","C","l","i","c","k","=","1">>),
                                                  Str(<<"O","N","L","O","A","D","=">>),
                                                  Str(<<"s","c","r","i","p","t">>),
                                                  Str(<<"o","n","l","o","a","d">>),
                                                  Str(Xs(MaxNameLength)),
                                                  Str(Xs(MaxNameLength + 1)),
                                                  Str(<<" ">> \o Xs(MaxNameLength) \o <<" ">>) } }
    \cup
    { RsvpBody(id, action, name) :
        id \in {"cal-b", "cal-zzz"}, action \in {"add", "remove"},
        name \in {Ann, Blank, ScriptTag} }
    \cup
    { RsvpBody("cal-a", "remove", name) : name \in {Ann, Blank} }

InitInput ==
    /\ appConfig = DefaultConfig
    /\ now = StartTime
    /\ upstream = NoUpstream
    /\ calendarCache = [events |-> <<>>, lastFetch |-> 0]
    /\ events = [NoEvents EXCEPT !["cal-a"] = EventRow("t1", Text("A"), Num(2))]
    /\ rsvps = SetToBag({<<"cal-a", Ann>>})
    /\ pool = EmptyBag
    /\ reqs = [r \in Reqs |-> IdleReq]
    /\ sent = <<>>
    /\ wss = NoClients

NextInput ==
    \E r \in TwoReqs :
        \/ RsvpStartWith(r, NameInputs)
        \/ RsvpCount(r)
        \/ RsvpInsert(r)
        \/ RsvpRemove(r)
        \/ RsvpBroadcast(r)

SpecInput == InitInput /\ [][NextInput]_vars

(***************************************************************************)
(* PUT /api/events/:id over its inputs: two requests, with or without the  *)
(* admin key, on a persisted or unknown id, with limits of every kind.     *)
(***************************************************************************)

LimitInputs ==
    { [id |-> id, adminKey |-> key, body |-> PutBody({"attendanceLimit"}, limit)] :
        id \in {"cal-a", "cal-zzz"}, key \in {UNDEFINED, ADMIN_API_KEY},
        limit \in { Num(5), Num(1), Num(0), Num(-1), NULL, Str(<<>>),
                    Str(<<"a", "b", "c">>), Str(<<"7">>), Str(<<"5", "x">>) } }
    \cup
    { [id |-> "cal-a", adminKey |-> ADMIN_API_KEY,
       body |-> PutBody({"attendanceLimit", "title"}, Num(5))],
      [id |-> "cal-a", adminKey |-> ADMIN_API_KEY,
       body |-> PutBody({"title"}, UNDEFINED)] }

InitLimit ==
    /\ appConfig = DefaultConfig
    /\ now = StartTime
    /\ upstream = NoUpstream
    /\ calendarCache = [events |-> <<>>, lastFetch |-> 0]
    /\ events = [NoEvents EXCEPT !["cal-a"] = EventRow("t1", Text("A"), Num(10))]
    /\ rsvps = SetToBag({<<"cal-a", Ann>>})
    /\ pool = EmptyBag
    /\ reqs = [r \in Reqs |-> IdleReq]
    /\ sent = <<>>
    /\ wss = NoClients

NextLimit ==
    \E r \in TwoReqs :
        \/ PutStartWith(r, LimitInputs)
        \/ PutUpdate(r)
        \/ PutSelect(r)
        \/ PutBroadcast(r)

SpecLimit == InitLimit /\ [][NextLimit]_vars

(***************************************************************************)
(* Two browsers on the page, their sockets open and the events loaded,     *)
(* while two RSVP requests change the attendance of cal-a. One browser     *)
(* keeps its socket; the other loses it, reconnects and reloads at will.   *)
(***************************************************************************)
Reconnecting == {"c1"}

LoadedClient ==
    [ClosedClient EXCEPT
        !.readyState = "OPEN", !.epoch = 1,
        !.currentEvents = [id \in EventIds |->
            IF id = "cal-a"
            THEN [attendingCount |-> 1, attendees |-> SetToBag({Ann})]
            ELSE NoRow]]

InitClient ==
    /\ appConfig = DefaultConfig
    /\ now = StartTime
    /\ upstream = NoUpstream
    /\ calendarCache = [events |-> <<>>, lastFetch |-> 0]
    /\ events = [NoEvents EXCEPT !["cal-a"] = EventRow("t1", Text("A"), Num(3))]
    /\ rsvps = SetToBag({<<"cal-a", Ann>>})
    /\ pool = EmptyBag
    /\ reqs = [r \in Reqs |-> IdleReq]
    /\ sent = <<>>
    /\ wss = [clients |-> [c \in Clients |-> LoadedClient], audience |-> <<>>]

NextClient ==
    \/ \E r \in TwoReqs :
          \/ RsvpStartWith(r, { RsvpBody("cal-a", "add", Bob), RsvpBody("cal-a", "remove", Ann) })
          \/ RsvpCount(r)
          \/ RsvpInsert(r)
          \/ RsvpRemove(r)
          \/ RsvpBroadcast(r)
    \/ \E c \in Clients : WsMessage(c)
    \/ \E c \in Reconnecting :
          \/ WsOpen(c)
          \/ WsClose(c)
          \/ LoadEvents(c)
          \/ LoadEventsThen(c)

SpecClient == InitClient /\ [][NextClient]_vars

(***************************************************************************)
(* The cache of the fetcher over time: two list requests, overlapping or   *)
(* one after the other, while the clock moves and the calendar changes its *)
(* feed; the cache starts as a fetch at StartTime left it.                 *)
(***************************************************************************)

InitCache ==
    /\ appConfig = DefaultConfig
    /\ now = StartTime
    /\ upstream = NoUpstream
    /\ calendarCache =
          [events |-> ParseBlocks(<<Block("a", "t1", UNDEFINED)>>, Text("A")),
           lastFetch |-> StartTime]
    /\ events = [NoEvents EXCEPT !["cal-a"] = EventRow("t1", Text("A"), NULL)]
    /\ rsvps = EmptyBag
    /\ pool = EmptyBag
    /\ reqs = [r \in Reqs |-> IdleReq]
    /\ sent = <<>>
    /\ wss = NoClients

NextCache ==
    \/ \E r \in TwoReqs :
        \/ ListStart(r)
        \/ ListFetchedWith(r, { [NoUpstream EXCEPT !["A"] = [status |-> "ok", blocks |-> feed]] :
                                  feed \in { <<Block("a", "t1", UNDEFINED)>>, <<Block("a", "t2", UNDEFINED)>> } })
        \/ ListBegin(r)
        \/ ListExisting(r)
        \/ ListUpsert(r)
        \/ ListStale(r)
        \/ ListCommit(r)
        \/ ListQuery(r)
    \/ Tick

SpecCache == InitCache /\ [][NextCache]_vars

(***************************************************************************)
(* RSVP requests and limit updates that may fail: two requests of either   *)
(* kind, valid or not, each statement of which may fail, with both         *)
(* browsers connected.                                                     *)
(***************************************************************************)

InitPartial ==
    /\ appConfig = DefaultConfig
    /\ now = StartTime
    /\ upstream = NoUpstream
    /\ calendarCache = [events |-> <<>>, lastFetch |-> 0]
    /\ events = [NoEvents EXCEPT !["cal-a"] = EventRow("t1", Text("A"), Num(2))]
    /\ rsvps = SetToBag({<<"cal-a", Ann>>})
    /\ pool = EmptyBag
    /\ reqs = [r \in Reqs |-> IdleReq]
    /\ sent = <<>>
    /\ wss = [clients |-> [c \in Clients |-> LoadedClient], audience |-> <<>>]

NextPartial ==
    \E r \in TwoReqs :
        \/ RsvpStartWith(r, (RsvpInputs \cup
                             { RsvpBody("", "add", Ann), RsvpBody("cal-a", "", Ann),
                               RsvpBody("cal-a", "maybe", Ann), RsvpBody("cal-a", "remove", Blank) }))
        \/ RsvpCount(r)
        \/ RsvpInsert(r)
        \/ RsvpRemove(r)
        \/ RsvpBroadcast(r)
        \/ RsvpFail(r)
        \/ PutStartWith(r, (PutInputs \cup
                            { [id |-> "cal-zzz", adminKey |-> ADMIN_API_KEY,
                               body |-> PutBody({"attendanceLimit"}, Num(5))] }))
        \/ PutUpdate(r)
        \/ PutSelect(r)
        \/ PutBroadcast(r)
        \/ PutFail(r)

SpecPartial == InitPartial /\ [][NextPartial]_vars

(***************************************************************************)
(* The list query over the filters: list requests without auto-fetch, on   *)
(* two events whose dates the clock passes, while RSVPs come and go.       *)
(***************************************************************************)

InitList ==
    /\ appConfig = [DefaultConfig EXCEPT !.autoFetch = FALSE]
    /\ now = StartTime
    /\ upstream = NoUpstream
    /\ calendarCache = [events |-> <<>>, lastFetch |-> 0]
    /\ \E da \in {StartTime, StartTime + 1} :
        events = [NoEvents EXCEPT
            !["cal-a"] = [EventRow("t1", Text("A"), NULL) EXCEPT !.date = da],
            !["cal-b"] = [EventRow("t2", NULL, NULL) EXCEPT !.date = StartTime + 1]]
    /\ rsvps = SetToBag({<<"cal-a", Ann>>})
    /\ pool = EmptyBag
    /\ reqs = [r \in Reqs |-> IdleReq]
    /\ sent = <<>>
    /\ wss = NoClients

NextList ==
    \/ \E r \in TwoReqs :
        \/ ListStartWith(r, {[timeRange |-> t] : t \in {"future", "past", "all", "week"}})
        \/ ListQuery(r)
        \/ RsvpStartWith(r, { RsvpBody("cal-a", "add", Ann), RsvpBody("cal-b", "add", Bob),
                              RsvpBody("cal-a", "remove", Ann) })
        \/ RsvpInsert(r)
        \/ RsvpRemove(r)
        \/ RsvpBroadcast(r)
    \/ Tick

SpecList == InitList /\ [][NextList]_vars

(***************************************************************************)
(* The parser over the blocks: calendar A answers with a feed of one or    *)
(* two blocks, each field present or not, dates of every length, and       *)
(* descriptions with and without a limit.                                  *)
(***************************************************************************)
Vevents ==
    LET Summaries == {UNDEFINED, Str(<<"P", "i", "c", "n", "i", "c", " ">>)}
        UidValues == {UNDEFINED, Str(<<"a">>), Str(<<"b", "\r">>)}
        StartValues ==
            { UNDEFINED,
              Str(<<"2", "0", "2", "4", "0", "1", "0", "2">>),
              Str(<<"2", "0", "2", "4", "0", "1", "0", "2", "T", "0", "3", "0", "4", "0", "5", "Z">>),
              Str(<<"2", "0", "2", "4", "0", "1", "0", "2", "T", "0", "3", "0", "4", "0", "5">>),
              Str(<<"2", "0", "2", "4">>),
              Str(<<"2", "0", "2", "4", "-", "0", "1", "-", "0", "2">>),
              Str(<<"2", "0", "2", "4", "T", "0", "1", "0">>),
              Str(<<"2", "0", "2", "4", "0", "1", "0", "2", "0", "3", "0", "4", "0", "5", "0">>),
              Str(<<"Z">>) }
        EndValues ==
            { UNDEFINED,
              Str(<<"2", "0", "2", "4", "0", "1", "0", "3">>),
              Str(<<"2", "0", "2", "4", "0", "1", "0", "2", "T", "0", "4", "0", "0", "0", "0", "Z">>),
              Str(<<"2", "0", "2", "4">>),
              Str(<<"2", "0", "2", "4", "0", "1", "0", "2", "T", "0", "4", "0", "0">>) }
        Descriptions ==
            { Str(<<>>),
              Str(<<"l", "i", "m", "i", "t", ":", " ", "5">>),
              Str(<<"L", "i", "m", "i", "t", " ", "5">>),
              Str(<<"L", "I", "M", "I", "T", ":", "0">>),
              Str(<<"n", "o", " ", "l", "i", "m", "i", "t", "s">>),
              Str(<<"l", "i", "m", "i", "t", ":", " ", "-", "5">>),
              Str(<<"m", "a", "x", " ", "1", "2", ",", " ", "l", "i", "m", "i", "t", ":", "\n", "3", "0", " ", "l", "i", "m", "i", "t", ":", " ", "4">>),
              Str(<<"l", "i", "m", "i", "t">>) }
    IN  { Vevent(sm, st, en, uid, d) :
            sm \in Summaries, st \in StartValues, en \in EndValues,
            uid \in UidValues, d \in Descriptions }
Feeds ==
    LET PlainVevent ==
            Vevent(Str(<<"P", "i", "c", "n", "i", "c", " ">>), Str(<<"2", "0", "2", "4", "0", "1", "0", "2">>), UNDEFINED,
                Str(<<"a">>), Str(<<>>))
    IN  {<<b>> : b \in Vevents}
            \cup {<<PlainVevent, b>> : b \in {v \in Vevents : v.description = Str(<<>>)}}

InitParse ==
    /\ appConfig = DefaultConfig
    /\ now = StartTime
    /\ \E feed \in Feeds :
        upstream = [NoUpstream EXCEPT !["A"] = [status |-> "ok", blocks |-> feed]]
    /\ calendarCache = [events |-> <<>>, lastFetch |-> 0]
    /\ events = NoEvents
    /\ rsvps = EmptyBag
    /\ pool = EmptyBag
    /\ reqs = [r \in Reqs |-> IdleReq]
    /\ sent = <<>>
    /\ wss = NoClients

SpecParse == InitParse /\ [][FetchParsed]_vars

(***************************************************************************)
(* Claims                                                                  *)
(***************************************************************************)
IsAdd(r) == reqs[r].kind = "rsvp" /\ reqs[r].in.action = "add"
IsRemove(r) == reqs[r].kind = "rsvp" /\ reqs[r].in.action = "remove"
IsDone(r) == reqs[r].pc = "done"
CapacityError == Reply(400, FALSE, "full")
Succeeded(r) == IsDone(r) /\ reqs[r].res.success
ValidAddOn(r, id) ==
    /\ IsAdd(r)
    /\ reqs[r].in.eventId = id
    /\ validateAttendeeName(reqs[r].in.attendeeName) # NULL

\* C1: concurrent addRsvp calls with valid names against an event with
\* attendanceLimit = 1 and no RSVP: the event never holds more than one 'yes'
\* RSVP, and once all calls have returned exactly one has succeeded and every
\* other one has failed with CapacityError.
C1_OneSeatOneWinner ==
    events["cal-a"] # NoRow /\ events["cal-a"].attendance_limit = Num(1) =>
        /\ AttendingCount("cal-a") <= 1
        /\ (\A r \in Reqs : IsDone(r) /\ ValidAddOn(r, "cal-a")) =>
              /\ Cardinality({r \in Reqs : Succeeded(r)}) = 1
              /\ \A r \in Reqs : ~Succeeded(r) => reqs[r].res = CapacityError

\* C10: an add whose count of 'yes' rows finds the event at or above its limit L
\* fails with CapacityError and inserts no row; an add whose count finds fewer than
\* L rows (as after a remove) succeeds and inserts exactly one row.
C10_CapacityCheck ==
    \A r \in Reqs :
        IsDone(r) /\ IsAdd(r) /\ reqs[r].attendingCount # UNDEFINED =>
            IF reqs[r].attendingCount.v >= reqs[r].event.attendance_limit.v
            THEN reqs[r].res = CapacityError /\ reqs[r].inserted = 0
            ELSE Succeeded(r) /\ reqs[r].inserted = 1

\* A full event (limit 2, two RSVPs) refused an add, a remove deleted one row and
\* a later add, counting one row, went through.
C10_Witness ==
    \E r1, r2, r3 \in Reqs :
        /\ IsDone(r1) /\ IsAdd(r1) /\ reqs[r1].res = CapacityError
        /\ reqs[r1].attendingCount = Num(2) /\ reqs[r1].event.attendance_limit = Num(2)
        /\ IsDone(r2) /\ IsRemove(r2) /\ reqs[r2].removed = 1
        /\ IsDone(r3) /\ IsAdd(r3) /\ Succeeded(r3)
        /\ reqs[r3].attendingCount = Num(1) /\ reqs[r3].inserted = 1
        /\ AttendingCount("cal-a") = 2

(***************************************************************************)
(* Claims on the reconciliation                                            *)
(***************************************************************************)
IsList(r) == reqs[r].kind = "list"
\* The steps of a run between BEGIN and COMMIT, COMMIT included.
AfterBegin == {"existing", "upsert", "stale", "delete", "commit"}
\* This step is request r's COMMIT.
Commits(r) == IsList(r) /\ reqs[r].pc = "commit" /\ reqs'[r].pc = "query"
\* This step is a failure of request r after BEGIN.
FailsAfterBegin(r) ==
    /\ IsList(r) /\ reqs[r].pc \in AfterBegin
    /\ reqs'[r].pc = "done" /\ reqs'[r].res.status = 500
NoPendingWrites(c) == c.tx # "open" /\ c.upserts = NoUpserts /\ c.deletes = {}
Committed(r) == IsList(r) /\ reqs[r].after # NULL

\* C2: a list request whose fetch returned no events skips the reconciliation:
\* none of its steps inserts, updates or deletes an event row or an RSVP row.
C2_EmptyFetchSkipsReconciliation ==
    [][\A r \in Reqs :
          /\ IsList(r) /\ reqs[r].pc \in AfterBegin \cup {"begin"}
          /\ reqs[r].calendarEvents = <<>>
          /\ reqs'[r] # reqs[r]
          => events' = events /\ rsvps' = rsvps]_vars

\* C3: a run that fails after BEGIN changes no committed event or RSVP row, the
\* connection it gives back holds none of its writes for a later request to see or
\* commit, and committed rows change only through the COMMIT of a run's own
\* transaction.
C3_FailedRunLeavesNoTrace ==
    [][/\ \A r \in Reqs : FailsAfterBegin(r) => events' = events /\ rsvps' = rsvps
       /\ \A c \in BagToSet(pool') : NoPendingWrites(c)
       /\ events' # events \/ rsvps' # rsvps =>
              \E r \in Reqs : Commits(r) /\ reqs[r].conn.tx = "open"]_vars

\* A run failed after its first upsert, and another run committed.
C3_Witness ==
    \E r1, r2 \in Reqs :
        /\ IsDone(r1) /\ IsList(r1) /\ reqs[r1].res.status = 500 /\ reqs[r1].idx >= 2
        /\ IsDone(r2) /\ Committed(r2) /\ reqs[r2].calendarEvents # <<>>

\* C4: when a run commits, no committed event is left whose source is a calendar S
\* and whose id is not among the ids the run fetched for S, and no RSVP row is left
\* without its event.
C4_NoStaleEventRemains ==
    [][\A r \in Reqs : Commits(r) =>
          /\ \A id \in EventIds :
                events'[id] # NoRow /\ events'[id].source # NULL =>
                    id \in CalendarIdsOf(reqs[r].calendarEvents, events'[id].source)
          /\ \A k \in BagToSet(rsvps') : events'[k[1]] # NoRow]_vars

\* C5: an event row disappears only at the COMMIT of a run whose fetch for the
\* row's source does not hold its id: a row of calendar A that A's fetch still
\* holds stays, whatever the fetch holds for calendar B.
C5_SourceIsolation ==
    [][\A id \in EventIds :
          events[id] # NoRow /\ events'[id] = NoRow =>
              \E r \in Reqs :
                  /\ Commits(r)
                  /\ id \notin CalendarIdsOf(reqs[r].calendarEvents,
                                              events[id].source)]_vars

\* A run whose fetch held cal-a for calendar A and nothing for calendar B deleted
\* cal-b and left cal-a.
C5_Witness ==
    \E r \in Reqs :
        /\ Committed(r)
        /\ reqs[r].stale = {"cal-b"}
        /\ "cal-a" \in CalendarIdsOf(reqs[r].calendarEvents, Text("A"))
        /\ reqs[r].after.events["cal-a"] # NoRow
        /\ reqs[r].after.events["cal-a"].source = Text("A")
        /\ reqs[r].after.events["cal-b"] = NoRow

\* The place of the last fetched event with the id of the one at place i.
LastWithId(calendarEvents, i) ==
    CHOOSE j \in i..Len(calendarEvents) :
        /\ calendarEvents[j].id = calendarEvents[i].id
        /\ \A k \in (j + 1)..Len(calendarEvents) :
               calendarEvents[k].id # calendarEvents[i].id

\* The limit the claim gives the fetched event e: its description's, else the one
\* the run read for the row, else null.
LimitRule(e, r) ==
    IF e.attendance_limit_from_description # UNDEFINED
    THEN e.attendance_limit_from_description
    ELSE IF reqs[r].existing[e.id] # NoRow THEN reqs[r].existing[e.id]
    ELSE NULL

\* C7 as stated: when a run commits, the row of every fetched event holds the
\* limit of that event's description, else the limit the run read for the row,
\* else null.
C7_LimitOfEveryFetchedEvent ==
    [][\A r \in Reqs : Commits(r) =>
          \A i \in 1..Len(reqs[r].calendarEvents) :
              LET e == reqs[r].calendarEvents[i] IN
              /\ events'[e.id] # NoRow
              /\ events'[e.id].attendance_limit = LimitRule(e, r)]_vars

\* C7: when a run commits, the row of every fetched id holds the limit of the
\* description of the last event fetched with that id, else the limit the run
\* read for the row, else null.
C7_LimitOfEveryFetchedId ==
    [][\A r \in Reqs : Commits(r) =>
          \A i \in 1..Len(reqs[r].calendarEvents) :
              LET list == reqs[r].calendarEvents
                  e == list[LastWithId(list, i)]
              IN
              /\ events'[e.id] # NoRow
              /\ events'[e.id].attendance_limit = LimitRule(e, r)]_vars

\* One run kept the stored limit 10 of cal-a, whose description stated none, and
\* another run took the limit 3 from the description.
C7_Witness ==
    \E r1, r2 \in Reqs :
        /\ Committed(r1) /\ Committed(r2)
        /\ \E i \in 1..Len(reqs[r1].calendarEvents) :
              /\ reqs[r1].calendarEvents[i].id = "cal-a"
              /\ reqs[r1].calendarEvents[i].attendance_limit_from_description
                     = UNDEFINED
        /\ reqs[r1].after.events["cal-a"].attendance_limit = Num(10)
        /\ \E i \in 1..Len(reqs[r2].calendarEvents) :
              /\ reqs[r2].calendarEvents[i].id = "cal-a"
              /\ reqs[r2].calendarEvents[i].attendance_limit_from_description
                     = Num(3)
        /\ reqs[r2].after.events["cal-a"].attendance_limit = Num(3)

\* C9: the COMMIT of a run on the rows an earlier run of the same fetched list
\* left changes no event row and no RSVP row.
C9_Idempotence ==
    [][\A r2 \in Reqs : Commits(r2) =>
          \A r1 \in Reqs \ {r2} :
              /\ Committed(r1)
              /\ reqs[r1].calendarEvents = reqs[r2].calendarEvents
              /\ reqs[r1].after = [events |-> events, rsvps |-> rsvps]
              => events' = events /\ rsvps' = rsvps]_vars

\* Two runs of the same fetched list committed one after the other: the first
\* changed the rows (cal-b and its RSVP went), the second left what the first left.
C9_Witness ==
    \E r1, r2 \in Reqs :
        /\ r1 # r2 /\ IsDone(r1) /\ IsDone(r2)
        /\ Committed(r1) /\ Committed(r2)
        /\ reqs[r1].calendarEvents = reqs[r2].calendarEvents
        /\ reqs[r1].calendarEvents # <<>>
        /\ reqs[r1].stale = {"cal-b"} /\ reqs[r2].stale = {}
        /\ reqs[r1].after = reqs[r2].after
        /\ reqs[r2].after = [events |-> events, rsvps |-> rsvps]
        /\ AttendingCount("cal-a") = 1

\* The events the feed of calendar entry cal holds, as the fetcher tags them.
EventsOf(cal) ==
    LET calendarId == ExtractCalendarId(cal.url) IN
    ParseBlocks(upstream[calendarId.t].blocks, calendarId)

\* The calendar's own fetch succeeded: enabled, id extracted, 2xx answer.
FetchSucceeded(cal) ==
    /\ cal.enabled
    /\ ExtractCalendarId(cal.url) # NULL
    /\ upstream[ExtractCalendarId(cal.url).t].status = "ok"

\* C6: the fetcher's result holds the events of every enabled calendar whose own
\* fetch succeeded, wherever a failing calendar stands in the configured list.
C6_FailureIsolation ==
    \A i \in 1..Len(appConfig.calendars) :
        LET cal == appConfig.calendars[i] IN
        FetchSucceeded(cal) =>
            \A j \in 1..Len(EventsOf(cal)) :
                \E k \in 1..Len(calendarCache.events) :
                    calendarCache.events[k] = EventsOf(cal)[j]

\* A PUT request that set a limit and replied 200.
IsPut(r) == reqs[r].kind = "put"
LimitSetBy(p) == ParsedLimit(reqs[p].in.body.attendanceLimit)
NoLimitInDescription(calendarEvents, id) ==
    \A i \in 1..Len(calendarEvents) :
        calendarEvents[i].id = id =>
            calendarEvents[i].attendance_limit_from_description = UNDEFINED

\* C8: when a run whose fetch states no limit for an event commits, a limit a
\* successful limit update has set on that event is still the event's limit.
C8_AdminLimitSurvives ==
    [][\A r \in Reqs : Commits(r) =>
          \A p \in Reqs :
              LET id == reqs[p].in.id IN
              /\ IsPut(p) /\ Succeeded(p)
              /\ events[id] # NoRow
              /\ events[id].attendance_limit = LimitSetBy(p)
              /\ NoLimitInDescription(reqs[r].calendarEvents, id)
              => /\ events'[id] # NoRow
                 /\ events'[id].attendance_limit = LimitSetBy(p)]_vars

(***************************************************************************)
(* Claims on the RSVP rows, the limit and the broadcasts                   *)
(***************************************************************************)
\* C11: every RSVP row's event_id is the id of a committed event row, also while
\* and after a reconciliation deletes events and adds interleave with it.
C11_RsvpsHaveTheirEvent ==
    \A k \in RsvpKeys : k[1] \in EventIds /\ events[k[1]] # NoRow

\* A run deleted cal-a with its RSVPs, and an add that had found cal-a before
\* the deletion failed at its INSERT and left no row.
C11_Witness ==
    \E r1, r2 \in Reqs :
        /\ Committed(r1) /\ reqs[r1].stale = {"cal-a"}
        /\ IsDone(r2) /\ IsAdd(r2) /\ reqs[r2].event # NoRow
        /\ reqs[r2].res.status = 500 /\ reqs[r2].inserted = 0
        /\ events["cal-a"] = NoRow /\ rsvps = EmptyBag

\* This step is a step of the add request r; it ends the request with success.
AddStep(r) ==
    reqs'[r] # reqs[r] /\ reqs'[r].kind = "rsvp" /\ reqs'[r].in.action = "add"
AddSucceeds(r) == AddStep(r) /\ reqs'[r].pc = "done" /\ reqs'[r].res.success

\* The attendance_update message of event id with the rows as they are.
UpdateOf(id) ==
    [type |-> "attendance_update", eventId |-> id,
     attendingCount |-> BagCardinality(AttendeesOf(id)),
     attendees |-> AttendeesOf(id)]

\* C12 as stated: a successful add emits exactly one attendance_update for its
\* event, no other step of an add emits anything, and the count the message
\* carries is the count from before the add's insert plus one.
C12_CountIsPreAddPlusOne ==
    [][\A r \in Reqs : AddStep(r) =>
          IF AddSucceeds(r)
          THEN /\ sent' = Append(sent, UpdateOf(reqs[r].in.eventId))
               /\ sent'[Len(sent')].attendingCount = reqs[r].preCount.v + 1
          ELSE sent' = sent]_vars

\* C12: a successful add emits exactly one attendance_update for its event, no
\* other step of an add emits anything, and the message carries the number and
\* the names of the event's 'yes' RSVPs as they are when it is emitted.
C12_OneUpdatePerAdd ==
    [][\A r \in Reqs : AddStep(r) =>
          IF AddSucceeds(r)
          THEN sent' = Append(sent, UpdateOf(reqs[r].in.eventId))
          ELSE sent' = sent]_vars

\* Two adds succeeded, each with its message; the message of the one that
\* inserted first carries both rows.
C12_Witness ==
    \E r1, r2 \in Reqs :
        /\ r1 # r2 /\ IsAdd(r1) /\ IsAdd(r2) /\ Succeeded(r1) /\ Succeeded(r2)
        /\ Len(sent) = 2
        /\ reqs[r1].preCount = Num(0) /\ reqs[r2].preCount = Num(1)
        /\ sent[1].type = "attendance_update" /\ sent[1].attendingCount = 2
        /\ sent[2].attendingCount = 2

\* This step receives the /rsvp request r; the event it names is persisted.
StartsRsvp(r) == reqs[r].pc = "idle" /\ reqs'[r].kind = "rsvp"
Persisted(id) == id \in EventIds /\ events[id] # NoRow
ValidationError == Reply(400, FALSE, "invalid_name")
NotFound == Reply(404, FALSE, "not_found")

\* The name contains pattern p in some letter case.
ContainsAnyCase(chars, p) ==
    \E i \in 1..(Len(chars) - Len(p) + 1) :
        \A j \in 1..Len(p) : LowerChar(chars[i + j - 1]) = p[j]
HasXssPattern(chars) == \E p \in XssPatterns : ContainsAnyCase(chars, p)
IsBlank(chars) == \A i \in 1..Len(chars) : chars[i] \in WhiteSpace

\* C13 as stated: an add on a persisted event is refused with ValidationError,
\* no RSVP row written, when the name is not a string, is empty or blank, is
\* longer than 100 characters or holds one of the patterns in any letter case;
\* any other name passes the validation.
C13_NameRulesOnRawLength ==
    [][\A r \in Reqs :
          /\ StartsRsvp(r) /\ reqs'[r].in.action = "add"
          /\ Persisted(reqs'[r].in.eventId)
          => LET name == reqs'[r].in.attendeeName IN
             IF \/ ~IsString(name) \/ IsBlank(name.s)
                \/ Len(name.s) > 100 \/ HasXssPattern(name.s)
             THEN /\ reqs'[r].pc = "done" /\ reqs'[r].res = ValidationError
                  /\ rsvps' = rsvps
             ELSE reqs'[r].pc # "done"]_vars

\* C13: the same with the length taken after trimming the white space at both
\* ends of the name.
C13_NameRules ==
    [][\A r \in Reqs :
          /\ StartsRsvp(r) /\ reqs'[r].in.action = "add"
          /\ Persisted(reqs'[r].in.eventId)
          => LET name == reqs'[r].in.attendeeName IN
             IF \/ ~IsString(name) \/ IsBlank(name.s)
                \/ Len(Trim(name.s)) > 100 \/ HasXssPattern(name.s)
             THEN /\ reqs'[r].pc = "done" /\ reqs'[r].res = ValidationError
                  /\ rsvps' = rsvps
             ELSE reqs'[r].pc # "done"]_vars

\* An add with <Script> was refused and wrote nothing, an add with a name of 100
\* characters wrote its row.
C13_Witness ==
    \E r1, r2 \in Reqs :
        /\ IsDone(r1) /\ IsAdd(r1) /\ reqs[r1].in.attendeeName = ScriptTag
        /\ reqs[r1].res = ValidationError /\ reqs[r1].inserted = 0
        /\ IsAdd(r2) /\ Succeeded(r2) /\ reqs[r2].inserted = 1
        /\ reqs[r2].in.attendeeName = Str(Xs(100))
        /\ BagIn(<<"cal-a", Str(Xs(100))>>, rsvps)

\* C14: an add or remove naming an event id that is not persisted is answered
\* 404 at once and no RSVP row changes, whatever the name.
C14_UnknownEventNotFound ==
    [][\A r \in Reqs :
          /\ StartsRsvp(r) /\ reqs'[r].in.action \in {"add", "remove"}
          /\ reqs'[r].in.eventId # "" /\ ~Persisted(reqs'[r].in.eventId)
          => /\ reqs'[r].pc = "done" /\ reqs'[r].res = NotFound
             /\ rsvps' = rsvps]_vars

\* An add with a refused name on an unknown id and a remove on an id without a
\* row were both answered 404.
C14_Witness ==
    \E r1, r2 \in Reqs :
        /\ IsDone(r1) /\ IsAdd(r1) /\ reqs[r1].in.eventId = "cal-zzz"
        /\ reqs[r1].in.attendeeName = ScriptTag /\ reqs[r1].res = NotFound
        /\ IsDone(r2) /\ IsRemove(r2) /\ reqs[r2].in.eventId = "cal-b"
        /\ reqs[r2].res = NotFound
        /\ rsvps = SetToBag({<<"cal-a", Ann>>})

\* This step is a step of the remove request r.
RemoveStep(r) ==
    reqs'[r] # reqs[r] /\ reqs'[r].kind = "rsvp" /\ reqs'[r].in.action = "remove"

\* The RSVP rows a remove request means: its event with its name, trimmed.
RemoveKey(r) == <<reqs'[r].in.eventId, Str(Trim(reqs'[r].in.attendeeName.s))>>

\* C15: over the whole of a remove request at most one row goes: each of its
\* steps leaves every event row and every RSVP row of another event or name as it
\* is, only the step that runs the DELETE changes the matching rows, and of k >= 1
\* matching rows it leaves k - 1, of none it leaves none.
C15_RemoveDeletesAtMostOne ==
    [][\A r \in Reqs : RemoveStep(r) =>
          /\ events' = events
          /\ \A k \in BagToSet(rsvps) \cup BagToSet(rsvps') :
                k # RemoveKey(r) => CopiesIn(k, rsvps') = CopiesIn(k, rsvps)
          /\ IF reqs[r].pc = "remove"
             THEN CopiesIn(RemoveKey(r), rsvps') =
                      IF CopiesIn(RemoveKey(r), rsvps) >= 1
                      THEN CopiesIn(RemoveKey(r), rsvps) - 1
                      ELSE 0
             ELSE rsvps' = rsvps]_vars

\* An add of " Ann " made a second row of Ann on cal-a, a remove of Ann deleted
\* one of the two and one is left.
C15_Witness ==
    \E r1, r2 \in Reqs :
        /\ IsAdd(r1) /\ Succeeded(r1)
        /\ reqs[r1].in.attendeeName = AnnPadded /\ reqs[r1].preCount = Num(1)
        /\ IsRemove(r2) /\ Succeeded(r2) /\ reqs[r2].removed = 1
        /\ CopiesIn(<<"cal-a", Ann>>, rsvps) = 1

\* This step receives the PUT request r; this step is a step of the PUT request r.
StartsPut(r) == reqs[r].pc = "idle" /\ reqs'[r].kind = "put"
PutStep(r) == reqs'[r] # reqs[r] /\ reqs'[r].kind = "put"
NewLimit(r) == reqs'[r].in.body.attendanceLimit
OnlyLimitKey(r) == reqs'[r].in.body.keys = {"attendanceLimit"}
IsPositiveInteger(l) == l.k = "int" /\ l.v >= 1
\* Zero, a negative number, or a string that is not a number.
IsNoLimit(l) ==
    \/ l.k = "int" /\ l.v < 1
    \/ l.k = "str" /\ \E i \in 1..Len(l.s) : ~IsDigit(l.s[i])

\* C16: a limit update whose newLimit is a positive integer or null is accepted;
\* one whose newLimit is zero, negative or not a number is answered 400 and
\* changes no event; no event row ever holds a limit below 1.
C16_OnlyPositiveLimits ==
    [][/\ \A r \in Reqs : StartsPut(r) /\ OnlyLimitKey(r) =>
            /\ IsPositiveInteger(NewLimit(r)) \/ NewLimit(r) = NULL
                   => reqs'[r].pc = "update"
            /\ IsNoLimit(NewLimit(r))
                   => reqs'[r].pc = "done" /\ reqs'[r].res.status = 400
       /\ \A id \in EventIds :
            events'[id] # NoRow /\ events'[id].attendance_limit # NULL
                => events'[id].attendance_limit.v >= 1]_vars

\* C17: a step of a PUT request changes an event row or emits a broadcast only
\* when the request carries the admin key; without it the request is refused.
C17_AdminOnly ==
    [][\A r \in Reqs :
          PutStep(r) /\ requireAdminKey(reqs'[r].in.adminKey) # NoReply =>
              /\ events' = events /\ sent' = sent
              /\ reqs'[r].pc = "done"
              /\ reqs'[r].res.status \in {401, 403}]_vars

\* The PUT request r completes with 200 in this step; the id it names is persisted.
PutSucceeds(r) ==
    PutStep(r) /\ reqs'[r].pc = "done" /\ reqs'[r].res.status = 200
KnownId(r) == reqs'[r].in.id \in EventIds /\ events[reqs'[r].in.id] # NoRow
PassedValidation(r) == reqs[r].pc \in {"update", "select", "attendees"}
EventUpdateOf(id, row) ==
    [type |-> "event_update", eventId |-> id, event |-> row,
     attendingCount |-> AttendingCount(id), attendees |-> AttendeesOf(id)]

\* C18 as stated: the step in which a limit update succeeds appends exactly one
\* event_update whose row carries the limit this request set, with the event's
\* current attendees and count, and no other step of the request sends anything;
\* an update of an unknown id ends in 404 having changed and sent nothing.
C18_UpdateCarriesOwnLimit ==
    [][\A r \in Reqs : PutStep(r) =>
          LET id == reqs'[r].in.id IN
          /\ IF PutSucceeds(r)
             THEN sent' = Append(sent,
                      EventUpdateOf(id, [events[id] EXCEPT
                                            !.attendance_limit = LimitSetBy(r)]))
             ELSE sent' = sent
          /\ ~KnownId(r) =>
                /\ events' = events /\ rsvps' = rsvps /\ sent' = sent
                /\ PassedValidation(r) /\ reqs'[r].pc = "done"
                       => reqs'[r].res = NotFound]_vars

\* C18, amended: the row of the message is the row the request read back after
\* its UPDATE, which is the event's row at that read.
C18_OneEventUpdatePerChange ==
    [][\A r \in Reqs : PutStep(r) =>
          LET id == reqs'[r].in.id IN
          /\ IF PutSucceeds(r)
             THEN sent' = Append(sent, EventUpdateOf(id, reqs[r].event))
             ELSE sent' = sent
          /\ reqs[r].pc = "select" /\ reqs'[r].pc = "attendees"
                => reqs'[r].event = events[id]
          /\ reqs[r].pc = "update" /\ reqs'[r].pc = "select" /\ KnownId(r)
                => events'[id].attendance_limit = LimitSetBy(r)
          /\ ~KnownId(r) =>
                /\ events' = events /\ rsvps' = rsvps /\ sent' = sent
                /\ PassedValidation(r) /\ reqs'[r].pc = "done"
                       => reqs'[r].res = NotFound]_vars

\* One update set cal-a's limit to 5 and its event_update, the only message,
\* carries limit 5 with Ann as the one attendee; an update of an unknown id
\* was answered 404.
C18_Witness ==
    \E r1, r2 \in Reqs :
        /\ IsPut(r1) /\ Succeeded(r1) /\ reqs[r1].in.id = "cal-a"
        /\ LimitSetBy(r1) = Num(5)
        /\ Len(sent) = 1
        /\ sent[1].type = "event_update" /\ sent[1].eventId = "cal-a"
        /\ sent[1].event.attendance_limit = Num(5)
        /\ sent[1].attendingCount = 1
        /\ sent[1].attendees = SetToBag({Ann})
        /\ IsPut(r2) /\ IsDone(r2) /\ reqs[r2].in.id = "cal-zzz"
        /\ reqs[r2].res = NotFound

(***************************************************************************)
(* Claims on the delivery of broadcasts to the browsers                    *)
(***************************************************************************)
\* What client c has received or still has in flight on its socket, in order,
\* each message with the socket it came or comes over.
InFlight(c) ==
    [i \in 1..Len(wss.clients[c].inbox) |->
        [n |-> wss.clients[c].inbox[i].n, data |-> wss.clients[c].inbox[i].data,
         epoch |-> wss.clients[c].epoch]]
Deliveries(c) == wss.clients[c].received \o InFlight(c)

\* C19: every message a client receives or has in flight is a broadcast, came
\* over a socket of that client that was open when it was broadcast, and comes
\* once; so a socket opened after a broadcast never carries it.
C19_AtMostOnceNoReplay ==
    \A c \in Clients :
        LET log == Deliveries(c) IN
        /\ \A i \in 1..Len(log) :
              /\ log[i].n \in 1..Len(sent)
              /\ log[i].data = sent[log[i].n]
              /\ <<c, log[i].epoch>> \in wss.audience[log[i].n]
        /\ \A i, j \in 1..Len(log) : i < j => log[i].n < log[j].n
        /\ wss.clients[c].readyState = "CLOSED" => wss.clients[c].inbox = <<>>

\* Client c1 missed the first of two broadcasts while its socket was closed,
\* reconnected, and has received the second one only; c2 received both.
C19_Witness ==
    /\ Len(sent) = 2
    /\ <<"c1", 1>> \notin wss.audience[1] /\ <<"c1", 2>> \notin wss.audience[1]
    /\ wss.clients["c1"].epoch = 2
    /\ Len(wss.clients["c1"].received) = 1
    /\ wss.clients["c1"].received[1].n = 2
    /\ wss.clients["c1"].inbox = <<>>
    /\ Len(wss.clients["c2"].received) = 2

Quiet == \A r \in Reqs : reqs[r].pc \in {"idle", "done"}
\* Some attendance change was broadcast while client c had no open socket.
MissedBroadcast(c) ==
    \E n \in 1..Len(sent) :
        /\ sent[n].type = "attendance_update"
        /\ \A e \in 0..MaxConnects : <<c, e>> \notin wss.audience[n]

\* C20: a client whose socket was closed while an attendance change was broadcast
\* and that has reconnected, with nothing in flight and no request being served,
\* shows for every event it has loaded the server's attendingCount and attendees.
C20_ReconnectResynchronizes ==
    \A c \in Clients :
        /\ MissedBroadcast(c)
        /\ wss.clients[c].readyState = "OPEN"
        /\ wss.clients[c].epoch >= 2
        /\ wss.clients[c].inbox = <<>>
        /\ wss.clients[c].fetched = NULL
        /\ Quiet
        => \A id \in EventIds :
              wss.clients[c].currentEvents[id] # NoRow
                  => wss.clients[c].currentEvents[id] = ServerEvents[id]

(***************************************************************************)
(* Claims on the cache of the fetcher                                      *)
(***************************************************************************)
StartsList(r) == reqs[r].pc = "idle" /\ reqs'[r].kind = "list"
FetchesInFlight == {r \in Reqs : reqs[r].kind = "list" /\ reqs[r].pc = "fetch"}
\* The time at which the latest upstream fetch so far started.
FetchStarts ==
    {calendarCache.lastFetch} \cup {reqs[r].fetchNow : r \in FetchesInFlight}
LastFetchStart == CHOOSE t \in FetchStarts : \A u \in FetchStarts : u <= t

\* C21: a call made no more than CACHE_TTL after the start of the latest upstream
\* fetch takes the cached list and starts no fetch; a call made later than that
\* starts a fetch.
C21_WithinTtlNoFetch ==
    [][\A r \in Reqs : StartsList(r) /\ appConfig.autoFetch =>
          IF now - LastFetchStart > CACHE_TTL
          THEN reqs'[r].pc = "fetch"
          ELSE /\ reqs'[r].pc = "begin"
               /\ reqs'[r].calendarEvents = calendarCache.events]_vars

\* C29: at most one upstream fetch is in flight at any time, lastFetch never
\* decreases, and the cache is never replaced by the result of a fetch that
\* started before the fetch whose result it holds (lastFetch is that start).
C29_CacheNeverGoesBack ==
    [][/\ Cardinality({r \in Reqs : reqs'[r].kind = "list" /\ reqs'[r].pc = "fetch"}) <= 1
       /\ calendarCache'.lastFetch >= calendarCache.lastFetch
       /\ \A r \in FetchesInFlight :
             calendarCache' # calendarCache /\ reqs'[r].pc # "fetch"
                 => reqs[r].fetchNow >= calendarCache.lastFetch]_vars

\* The rows with a source are exactly the events of list, each with the title of
\* the list's last event of that id.
HoldsExactly(rows, list) ==
    /\ \A id \in EventIds :
          rows[id] # NoRow /\ rows[id].source # NULL
              => \E i \in 1..Len(list) : list[i].id = id
    /\ \A i \in 1..Len(list) :
          LET e == list[LastWithId(list, i)] IN
          /\ rows[e.id] # NoRow
          /\ rows[e.id].title = e.title
          /\ rows[e.id].source = e.source

\* C28: a run that commits while holding a list older than the cached one leaves
\* every row as a committed run holding the cached list left it; and when the
\* last request completes, the rows with a source are exactly the events of the
\* most recently fetched list.
C28_NewestFetchWins ==
    [][/\ \A r \in Reqs :
            Commits(r) /\ reqs[r].calendarEvents # calendarCache.events =>
                \A p \in Reqs :
                    Committed(p) /\ reqs[p].calendarEvents = calendarCache.events =>
                        \A id \in EventIds :
                            reqs[p].after.events[id] = events[id]
                                => events'[id] = events[id]
       /\ (\A r \in Reqs : reqs'[r].pc \in {"idle", "done"})
          /\ (\E r \in Reqs : reqs'[r].kind = "list" /\ reqs'[r].after # NULL)
              => HoldsExactly(events', calendarCache'.events)]_vars

(***************************************************************************)
(* Claims on requests that fail                                            *)
(***************************************************************************)
IsRsvp(r) == reqs[r].kind = "rsvp"
Failed(r) == IsDone(r) /\ ~reqs[r].res.success

\* C23: an /rsvp request that has replied with success = false has inserted no
\* RSVP row and deleted none.
C23_NoPartialSuccess ==
    \A r \in Reqs :
        IsRsvp(r) /\ Failed(r) => reqs[r].inserted = 0 /\ reqs[r].removed = 0

\* This step completes request r with a reply of failure.
FailsNow(r) ==
    /\ reqs'[r] # reqs[r]
    /\ reqs'[r].kind \in {"rsvp", "put"}
    /\ reqs'[r].pc = "done" /\ ~reqs'[r].res.success

\* C30: the step in which an /rsvp or PUT request completes with a failure puts
\* no message in the log and none on any socket, and a message is emitted only by
\* the step in which a request completes with success: a request that fails has
\* emitted nothing.
C30_FailureEmitsNothing ==
    [][/\ \A r \in Reqs : FailsNow(r) => sent' = sent /\ wss' = wss
       /\ sent' # sent \/ wss' # wss =>
             \E r \in Reqs :
                 /\ reqs'[r] # reqs[r]
                 /\ reqs'[r].pc = "done" /\ reqs'[r].res.success]_vars

\* An add failed on a database error and a limit update of an unknown id was
\* answered 404, with both browsers connected, and nothing was sent.
C30_Witness ==
    \E r1, r2 \in Reqs :
        /\ IsAdd(r1) /\ IsDone(r1) /\ reqs[r1].res = Reply(500, FALSE, "error")
        /\ IsPut(r2) /\ IsDone(r2) /\ reqs[r2].res = NotFound
        /\ OpenClients = Clients
        /\ sent = <<>>
        /\ \A c \in Clients : wss.clients[c].inbox = <<>>

\* The attendance_update messages of event id, in the order they were emitted.
UpdatesOf(id) ==
    SelectSeq(sent, LAMBDA msg : msg.type = "attendance_update" /\ msg.eventId = id)

\* C27: when no request is being served, the last attendance_update emitted for
\* an event carries the event's persisted attendingCount and attendees.
C27_LastUpdateIsCurrent ==
    Quiet =>
        \A id \in EventIds :
            LET updates == UpdatesOf(id) IN
            Len(updates) > 0 =>
                /\ updates[Len(updates)].attendingCount = AttendingCount(id)
                /\ updates[Len(updates)].attendees = AttendeesOf(id)

(***************************************************************************)
(* Claims on the list query                                                *)
(***************************************************************************)
\* The list request r completes with its list in this step.
ListReturns(r) ==
    /\ reqs[r].kind = "list" /\ reqs[r].pc = "query"
    /\ reqs'[r].pc = "done" /\ reqs'[r].res.status = 200
MatchesFilter(id, timeRange) ==
    /\ events[id] # NoRow
    /\ timeRange = "future" => events[id].date > now
    /\ timeRange = "past" => events[id].date < now
YesRows(id) == {k \in BagToSet(rsvps) : k[1] = id}

\* C22: the list a request returns holds each persisted event that matches its
\* filter once and no other event, each with the number of the event's RSVP rows
\* as attendingCount and the names of exactly those rows as attendees.
C22_ListWithAttendance ==
    [][\A r \in Reqs : ListReturns(r) =>
          LET list == reqs'[r].list
              timeRange == reqs[r].in.timeRange
          IN
          /\ \A id \in EventIds :
                MatchesFilter(id, timeRange) <=>
                    \E i \in 1..Len(list) : list[i].id = id
          /\ \A i, j \in 1..Len(list) : list[i].id = list[j].id => i = j
          /\ \A i \in 1..Len(list) :
                LET id == list[i].id IN
                /\ list[i].event = events[id]
                /\ list[i].attendingCount = BagCardinality(list[i].attendees)
                /\ DOMAIN list[i].attendees = {k[2] : k \in YesRows(id)}
                /\ \A k \in YesRows(id) :
                      list[i].attendees[k[2]] = CopiesIn(k, rsvps)
                /\ YesRows(id) = {} => list[i].attendingCount = 0]_vars

\* At the instant of cal-a's date a 'future' request returned cal-b alone, with
\* no attendee; a millisecond later, at cal-b's date, a 'past' request returned
\* cal-a alone, with Ann as its one attendee.
C22_Witness ==
    \E r1, r2 \in Reqs :
        /\ IsList(r1) /\ Succeeded(r1) /\ reqs[r1].in.timeRange = "future"
        /\ Len(reqs[r1].list) = 1
        /\ reqs[r1].list[1].id = "cal-b"
        /\ reqs[r1].list[1].attendingCount = 0
        /\ reqs[r1].list[1].attendees = EmptyBag
        /\ IsList(r2) /\ Succeeded(r2) /\ reqs[r2].in.timeRange = "past"
        /\ Len(reqs[r2].list) = 1
        /\ reqs[r2].list[1].id = "cal-a"
        /\ reqs[r2].list[1].attendingCount = 1
        /\ reqs[r2].list[1].attendees = SetToBag({Ann})

(***************************************************************************)
(* Claims on the parser                                                    *)
(***************************************************************************)
Parsed == calendarCache.lastFetch # 0
Fed == upstream["A"].blocks
Out == calendarCache.events

AllDigits(v) == \A i \in 1..Len(v) : IsDigit(v[i])
\* YYYYMMDD, and YYYYMMDDTHHMMSS with or without the Z of UTC.
IsDateValue(v) == Len(v) = 8 /\ AllDigits(v)
IsTimestampValue(v) ==
    /\ Len(v) = 15 \/ (Len(v) = 16 /\ v[16] = "Z")
    /\ AllDigits(SubSeq(v, 1, 8)) /\ v[9] = "T" /\ AllDigits(SubSeq(v, 10, 15))
Parseable(field) ==
    field # UNDEFINED /\ (IsDateValue(field.s) \/ IsTimestampValue(field.s))
Unparseable(field) == field # UNDEFINED /\ ~Parseable(field)
\* YYYY-MM-DDTHH:MM:SSZ
IsIsoForm(d) ==
    /\ d.k = "str" /\ Len(d.s) = 20
    /\ \A i \in {1, 2, 3, 4, 6, 7, 9, 10, 12, 13, 15, 16, 18, 19} : IsDigit(d.s[i])
    /\ d.s[5] = "-" /\ d.s[8] = "-" /\ d.s[11] = "T"
    /\ d.s[14] = ":" /\ d.s[17] = ":" /\ d.s[20] = "Z"

\* c says which blocks of the feed have an event in the output: Place(c, i) is
\* where the event of block i stands.
Counts == [1..Len(Fed) -> {0, 1}]
RECURSIVE Place(_, _)
Place(c, i) == IF i = 0 THEN 0 ELSE Place(c, i - 1) + c[i]
ExpectedId(block) == Str(<<"c", "a", "l", "-">> \o TrimEnd(block.uid.s))
Corresponds(c) ==
    /\ Len(Out) = Place(c, Len(Fed))
    /\ \A i \in 1..Len(Fed) : c[i] = 1 =>
          /\ Fed[i].uid # UNDEFINED
          /\ Out[Place(c, i)].id = ExpectedId(Fed[i])
          /\ Out[Place(c, i)].description = Fed[i].description

\* C24: every block with SUMMARY, UID and a DTSTART that is a date or a timestamp
\* has exactly one event in the output, with id cal-<UID>, and a block without
\* SUMMARY, without DTSTART or without UID has none.
C24_OneEventPerBlock ==
    Parsed =>
        \E c \in Counts :
            /\ Corresponds(c)
            /\ \A i \in 1..Len(Fed) :
                  /\ Fed[i].summary # UNDEFINED /\ Fed[i].uid # UNDEFINED
                       /\ Parseable(Fed[i].dtstart) => c[i] = 1
                  /\ Fed[i].summary = UNDEFINED \/ Fed[i].uid = UNDEFINED
                       \/ Fed[i].dtstart = UNDEFINED => c[i] = 0

\* Of two blocks the first has the three fields and the second no UID, with a
\* timestamp as its DTSTART: the output is the event cal-a alone.
C24_Witness ==
    /\ Parsed
    /\ Len(Fed) = 2
    /\ Fed[2].uid = UNDEFINED /\ Fed[2].summary # UNDEFINED
    /\ Fed[2].dtstart = Str(<<"2", "0", "2", "4", "0", "1", "0", "2", "T", "0", "3", "0", "4", "0", "5", "Z">>)
    /\ Len(Out) = 1
    /\ Out[1].id = Str(<<"c", "a", "l", "-", "a">>)

\* C25: every date and every endDate other than null in the output has the form
\* YYYY-MM-DDTHH:MM:SSZ, the event of an eight-digit DTSTART starts at T00:00:00Z,
\* and a block whose DTSTART or DTEND is neither a date nor a timestamp has no
\* event in the output.
C25_DatesAreNormalized ==
    Parsed =>
        /\ \A k \in 1..Len(Out) :
              /\ IsIsoForm(Out[k].date)
              /\ Out[k].endDate # NULL => IsIsoForm(Out[k].endDate)
        /\ \E c \in Counts :
              /\ Corresponds(c)
              /\ \A i \in 1..Len(Fed) :
                    /\ c[i] = 1 /\ Parseable(Fed[i].dtstart)
                         /\ IsDateValue(Fed[i].dtstart.s)
                         => SubSeq(Out[Place(c, i)].date.s, 11, 20) = <<"T", "0", "0", ":", "0", "0", ":", "0", "0", "Z">>
                    /\ Unparseable(Fed[i].dtstart) \/ Unparseable(Fed[i].dtend)
                         => c[i] = 0

\* 'limit', a colon (which needColon requires), white space or none, then digits
\* from j on, at position i of chars, in any letter case.
LimitTokenAt(chars, i, j, needColon) ==
    /\ i + 4 <= Len(chars) /\ j > i + 4 /\ j <= Len(chars)
    /\ \A m \in 1..5 : LowerChar(chars[i + m - 1]) = <<"l", "i", "m", "i", "t">>[m]
    /\ IsDigit(chars[j])
    /\ LET hasColon == chars[i + 5] = ":"
           from == IF hasColon THEN i + 6 ELSE i + 5
       IN
       /\ needColon => hasColon
       /\ j >= from
       /\ \A m \in from..(j - 1) : chars[m] \in WhiteSpace
\* The integer of the first such token, UNDEFINED when there is none.
LimitToken(chars, needColon) ==
    LET tokens == {t \in (1..Len(chars)) \X (1..Len(chars)) :
                      LimitTokenAt(chars, t[1], t[2], needColon)}
        first == CHOOSE t \in tokens : \A u \in tokens : t[1] <= u[1]
    IN
    IF tokens = {} THEN UNDEFINED
    ELSE Num(ParseDigits(SubSeq(chars, first[2], Len(chars)), 0))
LimitsAre(needColon) ==
    \E c \in Counts :
        /\ Corresponds(c)
        /\ \A i \in 1..Len(Fed) : c[i] = 1 =>
              Out[Place(c, i)].attendance_limit_from_description
                  = LimitToken(Fed[i].description.s, needColon)

\* C26 as stated: the event of a block carries the integer of the first
\* 'limit: <integer>' token of the description, and undefined when the
\* description holds no such token.
C26_LimitColonInteger == Parsed => LimitsAre(TRUE)

\* C26: the same with the colon optional, as in 'limit 5'.
C26_LimitToken == Parsed => LimitsAre(FALSE)

\* The description 'LIMIT:0' gave the override 0, which is neither undefined nor
\* null.
C26_Witness ==
    /\ Parsed
    /\ Len(Fed) = 1 /\ Len(Out) = 1
    /\ Fed[1].description = Str(<<"L", "I", "M", "I", "T", ":", "0">>)
    /\ Out[1].attendance_limit_from_description = Num(0)
    /\ Out[1].attendance_limit_from_description \notin {UNDEFINED, NULL}

====
